---- MODULE Spec2Model ----
(***************************************************************************)
(* Billboard compliance backend: the rule catalog (ComplianceConfig), the  *)
(* rule selector (get_applicable_rules) and the evaluator                  *)
(* (ComplianceChecker.check_billboard_compliance); then the report and     *)
(* violation endpoints, the consent manager, the data retention policy and *)
(* the incentive service, each under a specification of its own.           *)
(*                                                                         *)
(* Python exceptions are modelled as values: an operator that can raise    *)
(* returns a record whose exc field names the exception (NoException when  *)
(* it completes).  A string built by an f-string is the sequence of its    *)
(* fragments.  Floats of the source are the integers of the same value.    *)
(***************************************************************************)
EXTENDS Integers, Sequences, FiniteSets, TLC

VARIABLES
    config,       \* ComplianceChecker.config: a reference into Configs
    pc,           \* "idle": no call in progress; "done": the call has ended
    billboard,    \* argument of the call
    report_data,  \* argument of the call
    now,          \* datetime.utcnow() as read by the call
    outcome,      \* what the call did: returned a dictionary, or raised
    log,          \* records the call handed to self.logger
    threads,      \* the calls in progress when handlers run in several threads
    db,           \* the tables of the database session
    response,     \* the last request served and what it answered
    clock         \* datetime.utcnow() as the consent queries read it

vars == <<config, pc, billboard, report_data, now, outcome, log, threads, db, response, clock>>

\* the variables of the other components
checkerVars == <<pc, billboard, report_data, now, outcome>>

databaseVars == <<db, response, clock>>

(***************************************************************************)
(* Python values.                                                          *)
(***************************************************************************)
None == "None"

NoException == "none"

\* bool(x) is False: None and the empty string
Falsy(x) == x = None \/ x = ""

\* x in list
InList(x, s) == \E i \in 1..Len(s) : s[i] = x

(***************************************************************************)
(* Enumerations (config/compliance_rules.py, models.py).                   *)
(***************************************************************************)
ZoneType ==
    [PROHIBITED |-> "prohibited", RESTRICTED |-> "restricted",
     PERMITTED |-> "permitted", HERITAGE |-> "heritage",
     RESIDENTIAL |-> "residential", COMMERCIAL |-> "commercial",
     INDUSTRIAL |-> "industrial"]

\* [z for z in ZoneType]: the members in definition order
ZoneTypeMembers ==
    <<ZoneType.PROHIBITED, ZoneType.RESTRICTED, ZoneType.PERMITTED,
      ZoneType.HERITAGE, ZoneType.RESIDENTIAL, ZoneType.COMMERCIAL,
      ZoneType.INDUSTRIAL>>

BillboardType ==
    [UNIPOLES |-> "unipoles", GANTRY |-> "gantry",
     WALL_MOUNTED |-> "wall_mounted", ROOFTOP |-> "rooftop", KIOSK |-> "kiosk",
     BUS_SHELTER |-> "bus_shelter", DIGITAL |-> "digital",
     TRADITIONAL |-> "traditional"]

BillboardTypeMembers ==
    <<BillboardType.UNIPOLES, BillboardType.GANTRY, BillboardType.WALL_MOUNTED,
      BillboardType.ROOFTOP, BillboardType.KIOSK, BillboardType.BUS_SHELTER,
      BillboardType.DIGITAL, BillboardType.TRADITIONAL>>

ViolationType ==
    [UNAUTHORIZED |-> "unauthorized", SIZE_VIOLATION |-> "size_violation",
     LOCATION_VIOLATION |-> "location_violation",
     STRUCTURAL_ISSUE |-> "structural_issue",
     CONTENT_VIOLATION |-> "content_violation",
     EXPIRED_PERMIT |-> "expired_permit"]

\* the values of an enumeration
EnumValues(enum) == {enum[m] : m \in DOMAIN enum}

\* mutant: an unknown value is taken as it is
EnumByValue_unchecked(enum, value) == [exc |-> NoException, value |-> value]

\* Enum(value): the member with that value, ValueError when there is none
EnumByValue(enum, value) ==
    IF value \in EnumValues(enum)
    THEN [exc |-> NoException, value |-> value]
    ELSE [exc |-> "ValueError"]

\* Enum.NAME: the member of that name, AttributeError when there is none
EnumAttr(enum, name) ==
    IF name \in DOMAIN enum
    THEN [exc |-> NoException, value |-> enum[name]]
    ELSE [exc |-> "AttributeError"]

(***************************************************************************)
(* str.lower() on the strings the model feeds it, and on class names,      *)
(* which are sequences of characters so that `'size' in rule_name' is a    *)
(* substring search.                                                       *)
(***************************************************************************)
LowerChar(c) ==
    CASE c = "A" -> "a" [] c = "B" -> "b" [] c = "C" -> "c" [] c = "D" -> "d"
      [] c = "E" -> "e" [] c = "F" -> "f" [] c = "G" -> "g" [] c = "H" -> "h"
      [] c = "I" -> "i" [] c = "J" -> "j" [] c = "K" -> "k" [] c = "L" -> "l"
      [] c = "M" -> "m" [] c = "N" -> "n" [] c = "O" -> "o" [] c = "P" -> "p"
      [] c = "Q" -> "q" [] c = "R" -> "r" [] c = "S" -> "s" [] c = "T" -> "t"
      [] c = "U" -> "u" [] c = "V" -> "v" [] c = "W" -> "w" [] c = "X" -> "x"
      [] c = "Y" -> "y" [] c = "Z" -> "z" [] OTHER -> c

LowerChars(s) == [i \in 1..Len(s) |-> LowerChar(s[i])]

\* sub in s, for sequences of characters
Contains(sub, s) ==
    \E i \in 1..(Len(s) - Len(sub) + 1) : SubSeq(s, i, i + Len(sub) - 1) = sub

\* rule.__class__.__name__ of the five rule classes
ClassName ==
    [SizeRestriction |->
        <<"S","i","z","e","R","e","s","t","r","i","c","t","i","o","n">>,
     LocationRestriction |->
        <<"L","o","c","a","t","i","o","n","R","e","s","t","r","i","c","t","i","o","n">>,
     ContentRestriction |->
        <<"C","o","n","t","e","n","t","R","e","s","t","r","i","c","t","i","o","n">>,
     SafetyRequirement |->
        <<"S","a","f","e","t","y","R","e","q","u","i","r","e","m","e","n","t">>,
     AdministrativeRequirement |->
        <<"A","d","m","i","n","i","s","t","r","a","t","i","v","e",
          "R","e","q","u","i","r","e","m","e","n","t">>]

\* zone_type.lower() / billboard_type.lower() for the strings of the inputs
Lower(s) ==
    CASE s = "COMMERCIAL" -> "commercial"
      [] s = "Industrial" -> "industrial"
      [] s = "DIGITAL" -> "digital"
      [] s = "Unipoles" -> "unipoles"
      [] OTHER -> s

(***************************************************************************)
(* Rule records (config/compliance_rules.py).  cls is the rule's class;    *)
(* the fields the evaluator never reads are left out.                      *)
(***************************************************************************)
SizeRestriction(rule_id, description, severity, zones, types, max_width, max_height, max_area) ==
    [cls |-> "SizeRestriction", rule_id |-> rule_id,
     description |-> description, severity |-> severity,
     applicable_zones |-> zones, applicable_billboard_types |-> types,
     max_width_meters |-> max_width, max_height_meters |-> max_height,
     max_area_sqm |-> max_area]

LocationRestriction(rule_id, description, severity, zones, types, min_distance_from_intersection) ==
    [cls |-> "LocationRestriction", rule_id |-> rule_id,
     description |-> description, severity |-> severity,
     applicable_zones |-> zones, applicable_billboard_types |-> types,
     min_distance_from_intersection |-> min_distance_from_intersection]

ContentRestriction(rule_id, description, severity, zones, types, prohibited_content) ==
    [cls |-> "ContentRestriction", rule_id |-> rule_id,
     description |-> description, severity |-> severity,
     applicable_zones |-> zones, applicable_billboard_types |-> types,
     prohibited_content |-> prohibited_content]

SafetyRequirement(rule_id, description, severity, zones, types, requires_structural_certificate) ==
    [cls |-> "SafetyRequirement", rule_id |-> rule_id,
     description |-> description, severity |-> severity,
     applicable_zones |-> zones, applicable_billboard_types |-> types,
     requires_structural_certificate |-> requires_structural_certificate]

AdministrativeRequirement(rule_id, description, severity, zones, types, requires_permit) ==
    [cls |-> "AdministrativeRequirement", rule_id |-> rule_id,
     description |-> description, severity |-> severity,
     applicable_zones |-> zones, applicable_billboard_types |-> types,
     requires_permit |-> requires_permit]

\* size_restrictions is a dict: its items in insertion order, keys distinct
ComplianceConfig(jurisdiction, size_restrictions, location_restrictions, content_restrictions, safety_requirements, administrative_requirements) ==
    [jurisdiction |-> jurisdiction,
     size_restrictions |-> size_restrictions,
     location_restrictions |-> location_restrictions,
     content_restrictions |-> content_restrictions,
     safety_requirements |-> safety_requirements,
     administrative_requirements |-> administrative_requirements]

\* [z for z in ZoneType if z != ZoneType.PROHIBITED]
NotProhibited == SelectSeq(ZoneTypeMembers, LAMBDA z : z # ZoneType.PROHIBITED)

DefaultMaxWidth == 12
DefaultMaxHeight == 4
DefaultMaxArea == 48
DefaultMinDistance == 30

load_default_config ==
    ComplianceConfig(
        "Example City Municipal Corporation",
        << [key |-> ZoneType.COMMERCIAL,
            value |-> SizeRestriction(
                "SIZE-COMM-001", "Maximum size for commercial zone billboards",
                "high", <<ZoneType.COMMERCIAL>>,
                <<BillboardType.UNIPOLES, BillboardType.GANTRY>>,
                DefaultMaxWidth, DefaultMaxHeight, DefaultMaxArea)] >>,
        << LocationRestriction(
                "LOC-001", "Minimum distance from intersections", "critical",
                <<ZoneType.PERMITTED, ZoneType.COMMERCIAL>>,
                <<BillboardType.UNIPOLES, BillboardType.GANTRY>>,
                DefaultMinDistance) >>,
        << ContentRestriction(
                "CONT-001", "Prohibited content", "high",
                ZoneTypeMembers, BillboardTypeMembers,
                <<"obscene", "defamatory", "inciting_violence", "hate_speech",
                  "unauthorized_political">>) >>,
        << SafetyRequirement(
                "SAFE-001", "Structural safety requirements", "critical",
                NotProhibited, BillboardTypeMembers, TRUE) >>,
        << AdministrativeRequirement(
                "ADMIN-001", "Permit requirements", "high",
                NotProhibited, BillboardTypeMembers, TRUE) >>)

(***************************************************************************)
(* Other catalogs a deployment can pass to ComplianceChecker(config):      *)
(* several rules per category, rules of two zones, rules that require      *)
(* nothing, a rule with empty applicability lists; and an empty catalog.   *)
(***************************************************************************)
BothTypes == <<BillboardType.UNIPOLES, BillboardType.DIGITAL>>

TwoZoneConfig ==
    ComplianceConfig(
        "Two Zone Town",
        << [key |-> ZoneType.COMMERCIAL,
            value |-> SizeRestriction(
                "SIZE-A", "Size limit, commercial and industrial", "medium",
                <<ZoneType.COMMERCIAL, ZoneType.INDUSTRIAL>>, BothTypes,
                DefaultMaxWidth + 1, DefaultMaxHeight + 1, DefaultMaxArea - 3)],
           [key |-> ZoneType.INDUSTRIAL,
            value |-> SizeRestriction(
                "SIZE-B", "Size limit, industrial", "high",
                <<ZoneType.INDUSTRIAL>>, <<BillboardType.UNIPOLES>>,
                DefaultMaxWidth, DefaultMaxHeight, DefaultMaxArea)] >>,
        << LocationRestriction(
                "LOC-A", "Intersection distance, industrial", "high",
                <<ZoneType.INDUSTRIAL>>, BothTypes, DefaultMinDistance + 1),
           LocationRestriction(
                "LOC-B", "Intersection distance, nowhere", "low",
                <<>>, <<>>, DefaultMinDistance + 1),
           LocationRestriction(
                "LOC-C", "Intersection distance", "critical",
                <<ZoneType.INDUSTRIAL, ZoneType.COMMERCIAL>>, BothTypes,
                DefaultMinDistance) >>,
        << ContentRestriction(
                "CONT-A", "Obscene or hateful content", "high",
                ZoneTypeMembers, BothTypes, <<"obscene", "hate_speech">>),
           ContentRestriction(
                "CONT-B", "Hateful content, commercial", "critical",
                <<ZoneType.COMMERCIAL>>, <<BillboardType.DIGITAL>>,
                <<"hate_speech">>) >>,
        << SafetyRequirement(
                "SAFE-A", "No certificate needed", "low",
                ZoneTypeMembers, BillboardTypeMembers, FALSE),
           SafetyRequirement(
                "SAFE-B", "Certificate for digital billboards", "critical",
                <<ZoneType.COMMERCIAL>>, <<BillboardType.DIGITAL>>, TRUE) >>,
        << AdministrativeRequirement(
                "ADMIN-A", "No permit needed", "low",
                <<ZoneType.INDUSTRIAL>>, BothTypes, FALSE),
           AdministrativeRequirement(
                "ADMIN-B", "Permit for unipoles", "high",
                <<ZoneType.COMMERCIAL>>, <<BillboardType.UNIPOLES>>, TRUE) >>)

EmptyConfig == ComplianceConfig("Empty County", <<>>, <<>>, <<>>, <<>>, <<>>)

\* the ComplianceConfig instances; the checker holds a reference to one
Configs ==
    [default |-> load_default_config, two_zone |-> TwoZoneConfig,
     empty |-> EmptyConfig]

(***************************************************************************)
(* ComplianceConfig.get_applicable_rules.                                  *)
(***************************************************************************)
\* mutant: the zone alone decides
is_applicable_zone_only(rule, zone, billboard_type) == InList(zone, rule.applicable_zones)

is_applicable(rule, zone, billboard_type) ==
    /\ InList(zone, rule.applicable_zones)
    /\ InList(billboard_type, rule.applicable_billboard_types)

\* [r for r in rules if is_applicable(r)]
Applicable(rules, zone, billboard_type) ==
    SelectSeq(rules, LAMBDA r : is_applicable(r, zone, billboard_type))

\* self.size_restrictions.values()
DictValues(items) == [i \in 1..Len(items) |-> items[i].value]

get_applicable_rules(self, zone, billboard_type) ==
    [size |-> Applicable(DictValues(self.size_restrictions), zone, billboard_type),
     location |-> Applicable(self.location_restrictions, zone, billboard_type),
     content |-> Applicable(self.content_restrictions, zone, billboard_type),
     safety |-> Applicable(self.safety_requirements, zone, billboard_type),
     administrative |->
        Applicable(self.administrative_requirements, zone, billboard_type)]

(***************************************************************************)
(* ComplianceChecker: violation records.                                   *)
(***************************************************************************)
Chars_size == <<"s", "i", "z", "e">>
Chars_location == <<"l", "o", "c", "a", "t", "i", "o", "n">>
Chars_content == <<"c", "o", "n", "t", "e", "n", "t">>
Chars_safety == <<"s", "a", "f", "e", "t", "y">>

\* the ViolationType attribute the method reads for a rule of class cls
AttributeRead(cls) ==
    LET rule_name == LowerChars(ClassName[cls])
    IN  IF Contains(Chars_size, rule_name) THEN "SIZE_VIOLATION"
        ELSE IF Contains(Chars_location, rule_name) THEN "LOCATION_VIOLATION"
        ELSE IF Contains(Chars_content, rule_name) THEN "CONTENT_VIOLATION"
        ELSE IF Contains(Chars_safety, rule_name) THEN "SAFETY_VIOLATION"
        ELSE "ADMINISTRATIVE_VIOLATION"

\* the same, computed once per class
AttributeReadOf == [cls \in DOMAIN ClassName |-> AttributeRead(cls)]

ViolationTypeName(rule) == AttributeReadOf[rule.cls]

_map_rule_to_violation_type(rule) == EnumAttr(ViolationType, ViolationTypeName(rule))

\* mutant: every violation is given the severity "high"
_create_violation_fixed_severity(rule, message) ==
    LET type == _map_rule_to_violation_type(rule)
    IN  IF type.exc # NoException
        THEN [exc |-> type.exc]
        ELSE [exc |-> NoException,
              value |-> [rule_id |-> rule.rule_id,
                         type |-> type.value,
                         severity |-> "high",
                         message |-> message,
                         details |-> [rule_description |-> rule.description]]]

_create_violation(rule, message) ==
    LET type == _map_rule_to_violation_type(rule)
    IN  IF type.exc # NoException
        THEN [exc |-> type.exc]
        ELSE [exc |-> NoException,
              value |-> [rule_id |-> rule.rule_id,
                         type |-> type.value,
                         severity |-> rule.severity,
                         message |-> message,
                         details |-> [rule_description |-> rule.description]]]

\* the calls that have ended with a result, of the threads
ResultsKept == {t \in DOMAIN threads : threads[t].pc = "done" /\ threads[t].outcome.status = "returned"}

\* mutant: the violations list is an attribute of the class, shared by all
\* calls: a list starts with what a call before it left
Started_kept ==
    [exc |-> NoException,
     violations |-> IF ResultsKept = {} THEN <<>>
                    ELSE threads[CHOOSE t \in ResultsKept : TRUE].outcome.value.violations]

\* the state of a check's loop: the violations list so far, or the exception
\* that ended the check
Started == [exc |-> NoException, violations |-> <<>>]

Raise(e) == [exc |-> e, violations |-> <<>>]

\* violations.append(self._create_violation(rule, message))
append_violation(acc, rule, message) ==
    IF acc.exc # NoException THEN acc
    ELSE LET v == _create_violation(rule, message)
         IN  IF v.exc # NoException
             THEN Raise(v.exc)
             ELSE [acc EXCEPT !.violations = Append(@, v.value)]

(***************************************************************************)
(* Python values of the call's arguments.                                  *)
(***************************************************************************)
\* a dict with these items; a string
Dict(items) == [type |-> "dict", items |-> items]

Str(s) == [type |-> "str", value |-> s]

\* float('inf'), and < on floats
Inf == -1

\* mutant: <= in place of <
FloatLess_or_equal(a, b) == IF a = Inf THEN FALSE ELSE IF b = Inf THEN TRUE ELSE a <= b

FloatLess(a, b) == IF a = Inf THEN FALSE ELSE IF b = Inf THEN TRUE ELSE a < b

\* an optional date attribute: None, or a day
NoDate == [is_none |-> TRUE]

Date(day) == [is_none |-> FALSE, day |-> day]

\* a < b on dates: TypeError when a is None
DateLess(a, b) ==
    IF a.is_none \/ b.is_none
    THEN [exc |-> "TypeError"]
    ELSE [exc |-> NoException, value |-> a.day < b.day]

\* hasattr(obj, name)
hasattr(obj, name) == name \in DOMAIN obj

\* d.get(key, default): AttributeError when d is no dict
DictGet(d, key, default) ==
    IF d.type # "dict" THEN [exc |-> "AttributeError"]
    ELSE IF key \in DOMAIN d.items
    THEN [exc |-> NoException, value |-> d.items[key]]
    ELSE [exc |-> NoException, value |-> default]

(***************************************************************************)
(* ComplianceChecker: the five category checks.  Each one runs its loop    *)
(* over the applicable rules from the empty list; a statement is skipped   *)
(* once an exception is in flight.                                         *)
(***************************************************************************)
\* if cond: violations.append(self._create_violation(rule, message))
AppendIf(acc, cond, rule, message) ==
    IF acc.exc # NoException \/ ~cond THEN acc
    ELSE append_violation(acc, rule, message)

WidthCheck(acc, b, rule) == AppendIf(acc, b.width_meters > rule.max_width_meters, rule, <<"Width exceeds maximum allowed">>)

HeightCheck(acc, b, rule) == AppendIf(acc, b.height_meters > rule.max_height_meters, rule, <<"Height exceeds maximum allowed">>)

\* mutant: an area equal to the maximum is a violation
AreaCheck_not_strict(acc, b, rule) == AppendIf(acc, b.width_meters * b.height_meters >= rule.max_area_sqm, rule, <<"Area exceeds maximum allowed">>)

AreaCheck(acc, b, rule) == AppendIf(acc, b.width_meters * b.height_meters > rule.max_area_sqm, rule, <<"Area exceeds maximum allowed">>)

SizeRule(acc, b, rule) == AreaCheck(HeightCheck(WidthCheck(acc, b, rule), b, rule), b, rule)

\* for rule in rules: ...
RECURSIVE SizeLoop(_, _, _)
SizeLoop(acc, b, rules) ==
    IF rules = <<>> \/ acc.exc # NoException THEN acc
    ELSE SizeLoop(SizeRule(acc, b, Head(rules)), b, Tail(rules))

_check_size(b, rules) == SizeLoop(Started, b, rules)

\* if got < rule.min_distance_from_intersection: ..., got the outcome of loc.get
DistanceCheck(acc, got, rule) ==
    IF got.exc # NoException THEN Raise(got.exc)
    ELSE AppendIf(acc, FloatLess(got.value, rule.min_distance_from_intersection), rule, <<"Too close to intersection">>)

LocationRule(acc, rd, rule) ==
    IF "location" \in DOMAIN rd
    THEN DistanceCheck(acc, DictGet(rd.location, "distance_from_intersection", Inf), rule)
    ELSE acc

RECURSIVE LocationLoop(_, _, _)
LocationLoop(acc, rd, rules) ==
    IF rules = <<>> \/ acc.exc # NoException THEN acc
    ELSE LocationLoop(LocationRule(acc, rd, Head(rules)), rd, Tail(rules))

_check_location(b, rd, rules) == LocationLoop(Started, rd, rules)

\* if prohibited in got: ..., got the outcome of content.get
ProhibitedCheck(acc, got, rule, prohibited) ==
    IF got.exc # NoException THEN Raise(got.exc)
    ELSE AppendIf(acc, prohibited \in got.value, rule, <<"Prohibited content: ", prohibited>>)

\* for prohibited in rule.prohibited_content: ...
RECURSIVE ProhibitedLoop(_, _, _, _)
ProhibitedLoop(acc, content, rule, tags) ==
    IF tags = <<>> \/ acc.exc # NoException THEN acc
    ELSE ProhibitedLoop(
            ProhibitedCheck(acc, DictGet(content, "detected_content", {}), rule, Head(tags)),
            content, rule, Tail(tags))

\* mutant: the inner loop breaks after the first prohibited tag found
ContentRule_one_per_rule(acc, rd, rule) ==
    LET r == ProhibitedLoop(acc, rd.content_analysis, rule, rule.prohibited_content)
    IN  IF r.exc # NoException \/ Len(r.violations) = Len(acc.violations) THEN r
        ELSE [r EXCEPT !.violations = SubSeq(@, 1, Len(acc.violations) + 1)]

ContentRule(acc, rd, rule) == ProhibitedLoop(acc, rd.content_analysis, rule, rule.prohibited_content)

RECURSIVE ContentLoop(_, _, _)
ContentLoop(acc, rd, rules) ==
    IF rules = <<>> \/ acc.exc # NoException THEN acc
    ELSE ContentLoop(ContentRule(acc, rd, Head(rules)), rd, Tail(rules))

_check_content(b, rd, rules) ==
    IF "content_analysis" \notin DOMAIN rd THEN Started
    ELSE ContentLoop(Started, rd, rules)

SafetyRule(acc, b, rule) == AppendIf(acc, rule.requires_structural_certificate /\ Falsy(b.structural_certificate_id), rule, <<"Missing structural certificate">>)

RECURSIVE SafetyLoop(_, _, _)
SafetyLoop(acc, b, rules) ==
    IF rules = <<>> \/ acc.exc # NoException THEN acc
    ELSE SafetyLoop(SafetyRule(acc, b, Head(rules)), b, Tail(rules))

_check_safety(b, rules) == SafetyLoop(Started, b, rules)

PermitCheck(acc, b, rule) == AppendIf(acc, rule.requires_permit /\ Falsy(b.permit_number), rule, <<"Missing permit">>)

\* if expired: ..., expired the outcome of the date comparison
ExpiredCheck(acc, expired, rule) ==
    IF expired.exc # NoException THEN Raise(expired.exc)
    ELSE AppendIf(acc, expired.value, rule, <<"Permit expired">>)

ExpiryCheck(acc, b, today, rule) ==
    IF acc.exc # NoException \/ ~hasattr(b, "permit_expiry_date") THEN acc
    ELSE ExpiredCheck(acc, DateLess(b.permit_expiry_date, today), rule)

AdministrativeRule(acc, b, today, rule) == ExpiryCheck(PermitCheck(acc, b, rule), b, today, rule)

RECURSIVE AdministrativeLoop(_, _, _, _)
AdministrativeLoop(acc, b, utcnow, rules) ==
    IF rules = <<>> \/ acc.exc # NoException THEN acc
    ELSE AdministrativeLoop(AdministrativeRule(acc, b, Date(utcnow), Head(rules)), b, utcnow, Tail(rules))

_check_administrative(b, utcnow, rules) == AdministrativeLoop(Started, b, utcnow, rules)

(***************************************************************************)
(* ComplianceChecker.check_billboard_compliance.  The result is the        *)
(* returned dictionary, or the exception the call re-raises.               *)
(***************************************************************************)
\* str(billboard.id)
IntToStr(n) ==
    CASE n = 0 -> "0" [] n = 1 -> "1" [] n = 2 -> "2" [] n = 3 -> "3" [] n = 4 -> "4"
      [] n = 5 -> "5" [] n = 6 -> "6" [] n = 7 -> "7" [] n = 8 -> "8" [] n = 9 -> "9"
      [] OTHER -> "?"

\* violations.extend(found): not reached once an exception is in flight
Extend(acc, found) ==
    IF acc.exc # NoException THEN acc
    ELSE IF found.exc # NoException THEN Raise(found.exc)
    ELSE [acc EXCEPT !.violations = @ \o found.violations]

\* the five violations.extend calls, in order
CategoryChecks(b, rd, utcnow, rules) ==
    Extend(Extend(Extend(Extend(Extend(Started,
        _check_size(b, rules.size)),
        _check_location(b, rd, rules.location)),
        _check_content(b, rd, rules.content)),
        _check_safety(b, rules.safety)),
        _check_administrative(b, utcnow, rules.administrative))

\* mutant: a single violation still counts as compliant
IsCompliant_off_by_one(violations) == Len(violations) <= 1

\* "is_compliant": len(violations) == 0
IsCompliant(violations) == Len(violations) = 0

\* the return statement
Result(b, utcnow, checked) ==
    IF checked.exc # NoException THEN [exc |-> checked.exc]
    ELSE [exc |-> NoException,
          value |-> [is_compliant |-> IsCompliant(checked.violations),
                     violations |-> checked.violations,
                     checked_at |-> utcnow,
                     billboard_id |-> IntToStr(b.id)]]

\* the body of the try block, zone and billboard_type the outcomes of the two
\* enumeration lookups
Evaluate(self, b, rd, utcnow, zone, billboard_type) ==
    IF zone.exc # NoException THEN [exc |-> zone.exc]
    ELSE IF billboard_type.exc # NoException THEN [exc |-> billboard_type.exc]
    ELSE Result(b, utcnow,
                CategoryChecks(b, rd, utcnow,
                    get_applicable_rules(self, zone.value, billboard_type.value)))

check_billboard_compliance(self, b, rd, utcnow) ==
    Evaluate(self, b, rd, utcnow,
             EnumByValue(ZoneType, Lower(b.zone_type)),
             EnumByValue(BillboardType, Lower(b.billboard_type)))

\* self.logger.error(f"Compliance check failed: {str(e)}")
ErrorRecord(e) == [level |-> "ERROR", message |-> <<"Compliance check failed: ", e>>]

\* what the caller gets, r the outcome of the try block: the exception is
\* re-raised
Outcome(r) ==
    IF r.exc # NoException
    THEN [status |-> "raised", exc |-> r.exc]
    ELSE [status |-> "returned", value |-> r.value]

\* mutant: the exception is re-raised without a log record
Logged_nothing(records, out) == records

\* except Exception as e: the error is logged
Logged(records, out) ==
    IF out.status = "raised" THEN Append(records, ErrorRecord(out.exc)) ELSE records

(***************************************************************************)
(* The inputs of the model.                                                *)
(***************************************************************************)
MaxDay == 2

ZoneStrings == {"COMMERCIAL", "industrial", "nowhere"}
TypeStrings == {"unipoles", "DIGITAL", "banner"}
Widths == {DefaultMaxWidth, DefaultMaxWidth + 1, DefaultMaxWidth + 3}
Heights == {DefaultMaxHeight - 1, DefaultMaxHeight, DefaultMaxHeight + 1}
PermitNumbers == {"", "P-1"}
CertificateIds == {None, "SC-1"}
Days == 1..MaxDay
ExpiryDays == {1, MaxDay}
Distances == {DefaultMinDistance - 1, DefaultMinDistance}
DetectedContents == {{"hate_speech"}, {"obscene", "hate_speech"}}

\* a billboard snapshot whose permit_expiry_date attribute exists
BillboardsWithExpiry ==
    [id : {1}, zone_type : ZoneStrings, billboard_type : TypeStrings,
     width_meters : Widths, height_meters : Heights,
     permit_number : PermitNumbers, structural_certificate_id : CertificateIds,
     permit_expiry_date : {NoDate} \cup {Date(d) : d \in ExpiryDays}]

\* and one that has no such attribute
BillboardsWithoutExpiry ==
    [id : {1}, zone_type : ZoneStrings, billboard_type : TypeStrings,
     width_meters : Widths, height_meters : Heights,
     permit_number : PermitNumbers, structural_certificate_id : CertificateIds]

Billboards == BillboardsWithExpiry \cup BillboardsWithoutExpiry

Locations ==
    {Str("12.97,77.59"), Dict([latitude |-> 12])}
    \cup {Dict([latitude |-> 12, distance_from_intersection |-> d]) : d \in Distances}

ContentAnalyses ==
    {Str("pending"), Dict([model |-> "v1"])}
    \cup {Dict([model |-> "v1", detected_content |-> s]) : s \in DetectedContents}

ReportDatas ==
    {[report_id |-> 1]}
    \cup [report_id : {1}, location : Locations]
    \cup [report_id : {1}, content_analysis : ContentAnalyses]
    \cup [report_id : {1}, location : Locations, content_analysis : ContentAnalyses]

(***************************************************************************)
(* The state machine: a checker constructed with one of the catalogs       *)
(* serves one call after another.                                          *)
(***************************************************************************)
NoCall == [status |-> "none"]

\* no thread, no database session
NoThreads == <<>>

NoDatabase ==
    /\ db = <<>>
    /\ response = NoCall
    /\ clock = 0

Init ==
    /\ config \in DOMAIN Configs
    /\ pc = "idle"
    /\ billboard = NoCall
    /\ report_data = NoCall
    /\ now = 0
    /\ outcome = NoCall
    /\ log = <<>>
    /\ threads = NoThreads
    /\ NoDatabase

Call(b, rd, utcnow) ==
    /\ outcome' = Outcome(check_billboard_compliance(Configs[config], b, rd, utcnow))
    /\ log' = Logged(log, outcome')
    /\ billboard' = b
    /\ report_data' = rd
    /\ now' = utcnow
    /\ pc' = "done"
    /\ UNCHANGED <<config, threads, databaseVars>>

\* the caller has the outcome; the records go to the logging sink
NextRequest ==
    /\ pc = "done"
    /\ pc' = "idle"
    /\ billboard' = NoCall
    /\ report_data' = NoCall
    /\ now' = 0
    /\ outcome' = NoCall
    /\ log' = <<>>
    /\ UNCHANGED <<config, threads, databaseVars>>

\* a request handler calls the checker
Request ==
    /\ pc = "idle"
    /\ \E b \in Billboards, rd \in ReportDatas, utcnow \in Days : Call(b, rd, utcnow)

Next == Request \/ NextRequest

Spec == Init /\ [][Next]_vars

(***************************************************************************)
(* Properties.  They are stated on the state a call leaves: its arguments, *)
(* the checker's catalog and the call's outcome.                           *)
(***************************************************************************)
Done == pc = "done"

Returned == pc = "done" /\ outcome.status = "returned"

Raised == pc = "done" /\ outcome.status = "raised"

\* the classification strings name members of the enumerations (the code
\* compares them after lower())
ZoneKnown == Lower(billboard.zone_type) \in EnumValues(ZoneType)

TypeKnown == Lower(billboard.billboard_type) \in EnumValues(BillboardType)

\* the rules the call selected for its billboard
Selected == get_applicable_rules(Configs[config], Lower(billboard.zone_type), Lower(billboard.billboard_type))

\* the violations of a list that one rule triggered, and their messages
ByRule(violations, rule) == SelectSeq(violations, LAMBDA v : v.rule_id = rule.rule_id)

Messages(violations) == [i \in 1..Len(violations) |-> violations[i].message]

\* <<m>> if cond, else nothing
If(cond, m) == IF cond THEN <<m>> ELSE <<>>

\* the elements of a sequence
Range(s) == {s[i] : i \in 1..Len(s)}

\* C1: a call whose zone string or billboard-type string names no member of
\* ZoneType / BillboardType fails as a whole: it raises, returns no result
\* dictionary (so never is_compliant = true), and the error is a ValueError.
C1_UnknownClassificationFails ==
    (Done /\ ~(ZoneKnown /\ TypeKnown)) =>
        /\ outcome.status = "raised"
        /\ outcome.exc = "ValueError"
        /\ "value" \notin DOMAIN outcome

C1_Witness ==
    /\ Raised
    /\ billboard.zone_type = "nowhere"
    /\ TypeKnown
    /\ outcome.exc = "ValueError"

\* C2: in every returned result is_compliant is true exactly when the
\* violations list is empty, and the list is the concatenation, in order, of
\* what the size, location, content, safety and administrative checks found.
C2_ResultAggregation ==
    Returned =>
        /\ outcome.value.is_compliant <=> (outcome.value.violations = <<>>)
        /\ outcome.value.violations =
              _check_size(billboard, Selected.size).violations
              \o _check_location(billboard, report_data, Selected.location).violations
              \o _check_content(billboard, report_data, Selected.content).violations
              \o _check_safety(billboard, Selected.safety).violations
              \o _check_administrative(billboard, now, Selected.administrative).violations

\* a result with violations of two categories
C2_Witness ==
    /\ Returned
    /\ ~outcome.value.is_compliant
    /\ \E i, j \in 1..Len(outcome.value.violations) :
          /\ outcome.value.violations[i].type = ViolationType.SIZE_VIOLATION
          /\ outcome.value.violations[j].type = ViolationType.CONTENT_VIOLATION

\* what the three strict size conditions give for one rule
ExpectedSize(b, rule) ==
    If(b.width_meters > rule.max_width_meters, <<"Width exceeds maximum allowed">>)
    \o If(b.height_meters > rule.max_height_meters, <<"Height exceeds maximum allowed">>)
    \o If(b.width_meters * b.height_meters > rule.max_area_sqm, <<"Area exceeds maximum allowed">>)

\* C3: for every applicable size rule the size check yields one violation for
\* each of the conditions width > max_width, height > max_height and
\* width * height > max_area that holds, and no other (equality never
\* violates); a returned result carries exactly these for the rule.  15 x 3
\* against {12, 4, 48} gives the width violation alone, 13 x 5 gives three.
C3_SizeViolations ==
    (Done /\ ZoneKnown /\ TypeKnown) =>
        \A i \in 1..Len(Selected.size) :
            LET rule == Selected.size[i]
                found == _check_size(billboard, Selected.size)
            IN  /\ found.exc = NoException
                /\ Messages(ByRule(found.violations, rule)) = ExpectedSize(billboard, rule)
                /\ Len(ByRule(found.violations, rule)) <= 3
                /\ Returned =>
                      Messages(ByRule(outcome.value.violations, rule)) = ExpectedSize(billboard, rule)
                /\ (/\ rule.max_width_meters = DefaultMaxWidth
                    /\ rule.max_height_meters = DefaultMaxHeight
                    /\ rule.max_area_sqm = DefaultMaxArea) =>
                      /\ (billboard.width_meters = 15 /\ billboard.height_meters = 3) =>
                            Messages(ByRule(found.violations, rule))
                                = << <<"Width exceeds maximum allowed">> >>
                      /\ (billboard.width_meters = 13 /\ billboard.height_meters = 5) =>
                            Len(ByRule(found.violations, rule)) = 3

\* a returned result for a 15 x 3 billboard against {12, 4, 48}: one violation
C3_Witness ==
    /\ Returned
    /\ config = "default"
    /\ billboard.width_meters = 15 /\ billboard.height_meters = 3
    /\ Len(Selected.size) = 1
    /\ Messages(outcome.value.violations) = << <<"Width exceeds maximum allowed">> >>

\* report_data holds no entry of an unexpected shape
WellFormed(rd) ==
    /\ ("location" \in DOMAIN rd => rd.location.type = "dict")
    /\ ("content_analysis" \in DOMAIN rd => rd.content_analysis.type = "dict")

\* the billboard has a permit-expiry date, and it is earlier than the
\* evaluation time
PermitExpired(b, utcnow) ==
    /\ hasattr(b, "permit_expiry_date")
    /\ ~b.permit_expiry_date.is_none
    /\ b.permit_expiry_date.day < utcnow

\* the billboard's permit_expiry_date is a date, or there is none
ExpiryComparable(b) == hasattr(b, "permit_expiry_date") => ~b.permit_expiry_date.is_none

\* no applicable safety rule finds anything
SafetyClean == \A i \in 1..Len(Selected.safety) : ~(Selected.safety[i].requires_structural_certificate /\ Falsy(billboard.structural_certificate_id))

\* no applicable administrative rule finds anything
AdministrativeClean ==
    /\ ExpiryComparable(billboard)
    /\ \A i \in 1..Len(Selected.administrative) :
          /\ ~(Selected.administrative[i].requires_permit /\ Falsy(billboard.permit_number))
          /\ ~PermitExpired(billboard, now)

\* what the two administrative conditions give for one rule
ExpectedAdministrative(b, utcnow, rule) ==
    If(rule.requires_permit /\ Falsy(b.permit_number), <<"Missing permit">>)
    \o If(PermitExpired(b, utcnow), <<"Permit expired">>)

\* C4: for each applicable administrative rule the evaluation returns a
\* result that holds a "Missing permit" violation iff the rule requires a
\* permit and the permit number is empty or absent and, independently, a
\* "Permit expired" violation iff the billboard has a permit-expiry date
\* earlier than the evaluation time.  Stated for calls in which nothing else
\* can fail: known classification, well-formed report_data, an expiry that is
\* a date or missing, and no safety finding.
C4_AdministrativeViolations ==
    (Done /\ ZoneKnown /\ TypeKnown /\ WellFormed(report_data)
          /\ ExpiryComparable(billboard) /\ SafetyClean) =>
        \A i \in 1..Len(Selected.administrative) :
            /\ outcome.status = "returned"
            /\ Messages(ByRule(outcome.value.violations, Selected.administrative[i]))
                  = ExpectedAdministrative(billboard, now, Selected.administrative[i])

\* what the safety condition gives for one rule
ExpectedSafety(b, rule) ==
    If(rule.requires_structural_certificate /\ Falsy(b.structural_certificate_id), <<"Missing structural certificate">>)

\* C5: for each applicable safety rule the evaluation returns a result that
\* holds a "Missing structural certificate" violation for the rule iff the
\* rule requires a certificate and the billboard has none.  Stated for calls
\* in which nothing else can fail: known classification, well-formed
\* report_data and no administrative finding.
C5_SafetyViolations ==
    (Done /\ ZoneKnown /\ TypeKnown /\ WellFormed(report_data) /\ AdministrativeClean) =>
        \A i \in 1..Len(Selected.safety) :
            /\ outcome.status = "returned"
            /\ Messages(ByRule(outcome.value.violations, Selected.safety[i]))
                  = ExpectedSafety(billboard, Selected.safety[i])

\* the tag the classifier is to give a rule of each category
ExpectedTag ==
    [size |-> "SIZE_VIOLATION", location |-> "LOCATION_VIOLATION",
     content |-> "CONTENT_VIOLATION", safety |-> "SAFETY_VIOLATION",
     administrative |-> "ADMINISTRATIVE_VIOLATION"]

\* C6: for every rule a call selects, of whatever category, the violation
\* type the classifier gives is a defined member of ViolationType, fixed by
\* the category alone: SIZE_VIOLATION, LOCATION_VIOLATION, CONTENT_VIOLATION,
\* SAFETY_VIOLATION, and ADMINISTRATIVE_VIOLATION for the rest.
C6_ViolationTypeDefined ==
    (Done /\ ZoneKnown /\ TypeKnown) =>
        \A category \in DOMAIN ExpectedTag :
            \A i \in 1..Len(Selected[category]) :
                LET tag == _map_rule_to_violation_type(Selected[category][i])
                IN  /\ tag.exc = NoException
                    /\ ExpectedTag[category] \in DOMAIN ViolationType
                    /\ tag.value = ViolationType[ExpectedTag[category]]

\* the measured distance of report_data, if it has one
HasDistance(rd) ==
    /\ "location" \in DOMAIN rd
    /\ rd.location.type = "dict"
    /\ "distance_from_intersection" \in DOMAIN rd.location.items

ExpectedLocation(rd, rule) ==
    If(HasDistance(rd) /\ rd.location.items.distance_from_intersection < rule.min_distance_from_intersection, <<"Too close to intersection">>)

\* the violations of a list that carry a tag
OfType(violations, tag) == SelectSeq(violations, LAMBDA v : v.type = tag)

\* C7: the location check yields a "Too close to intersection" violation for
\* an applicable location rule iff report_data has a location entry whose
\* distance_from_intersection is strictly less than the rule's minimum; with
\* no location entry, or an entry with no distance, there is no location
\* violation whatever the rules.  (The location entry, when present, is a
\* mapping.)
C7_LocationViolations ==
    (Done /\ ZoneKnown /\ TypeKnown
          /\ ("location" \in DOMAIN report_data => report_data.location.type = "dict")) =>
        LET found == _check_location(billboard, report_data, Selected.location)
        IN  /\ found.exc = NoException
            /\ \A i \in 1..Len(Selected.location) :
                  /\ Messages(ByRule(found.violations, Selected.location[i]))
                        = ExpectedLocation(report_data, Selected.location[i])
                  /\ Returned =>
                        Messages(ByRule(outcome.value.violations, Selected.location[i]))
                            = ExpectedLocation(report_data, Selected.location[i])
            /\ ~HasDistance(report_data) =>
                  /\ found.violations = <<>>
                  /\ Returned => OfType(outcome.value.violations, ViolationType.LOCATION_VIOLATION) = <<>>

\* a result where one applicable rule is violated and another, whose minimum
\* equals the measured distance, is not
C7_Witness ==
    /\ Returned
    /\ HasDistance(report_data)
    /\ Len(Selected.location) = 2
    /\ report_data.location.items.distance_from_intersection = Selected.location[2].min_distance_from_intersection
    /\ Len(OfType(outcome.value.violations, ViolationType.LOCATION_VIOLATION)) = 1
    /\ OfType(outcome.value.violations, ViolationType.LOCATION_VIOLATION)[1].rule_id = Selected.location[1].rule_id

\* the detected-content tags of report_data
Detected(rd) ==
    IF /\ "content_analysis" \in DOMAIN rd
       /\ rd.content_analysis.type = "dict"
       /\ "detected_content" \in DOMAIN rd.content_analysis.items
    THEN rd.content_analysis.items.detected_content
    ELSE {}

\* one message per prohibited tag of the rule that was detected, in the
\* rule's order
ExpectedContent(rd, rule) ==
    LET matched == SelectSeq(rule.prohibited_content, LAMBDA tag : tag \in Detected(rd))
    IN  [k \in 1..Len(matched) |-> <<"Prohibited content: ", matched[k]>>]

\* C8: the content check runs only when report_data has a content_analysis
\* entry, and then yields, for each applicable content rule, exactly one
\* violation per prohibited tag of the rule that is in detected_content, the
\* tag named in the message; without content_analysis there is no content
\* violation.  (The content_analysis entry, when present, is a mapping.)
C8_ContentViolations ==
    (Done /\ ZoneKnown /\ TypeKnown
          /\ ("content_analysis" \in DOMAIN report_data => report_data.content_analysis.type = "dict")) =>
        LET found == _check_content(billboard, report_data, Selected.content)
        IN  /\ found.exc = NoException
            /\ \A i \in 1..Len(Selected.content) :
                  /\ Messages(ByRule(found.violations, Selected.content[i]))
                        = ExpectedContent(report_data, Selected.content[i])
                  /\ Returned =>
                        Messages(ByRule(outcome.value.violations, Selected.content[i]))
                            = ExpectedContent(report_data, Selected.content[i])
            /\ "content_analysis" \notin DOMAIN report_data =>
                  /\ found.violations = <<>>
                  /\ Returned => OfType(outcome.value.violations, ViolationType.CONTENT_VIOLATION) = <<>>

\* a result with two violations of one rule, one per matched tag
C8_Witness ==
    /\ Returned
    /\ Detected(report_data) = {"obscene", "hate_speech"}
    /\ Len(Selected.content) >= 1
    /\ Messages(ByRule(outcome.value.violations, Selected.content[1]))
          = << <<"Prohibited content: ", "obscene">>, <<"Prohibited content: ", "hate_speech">> >>

\* the selection predicate, on the sets of a rule's zones and types
Matches(rule, zone, billboard_type) ==
    /\ zone \in Range(rule.applicable_zones)
    /\ billboard_type \in Range(rule.applicable_billboard_types)

\* out is the subsequence of catalog, in catalog order, of the rules that match
IsSelection(out, catalog, zone, billboard_type) ==
    LET idx == {i \in 1..Len(catalog) : Matches(catalog[i], zone, billboard_type)}
    IN  /\ Len(out) = Cardinality(idx)
        /\ \A k \in 1..Len(out) :
              \E i \in idx : /\ Cardinality({j \in idx : j < i}) = k - 1
                             /\ out[k] = catalog[i]

\* the size rules of a catalog, in the order of the dict
SizeCatalog(self) == [i \in 1..Len(self.size_restrictions) |-> self.size_restrictions[i].value]

\* C9: get_applicable_rules(zone, billboard_type) returns, for every
\* category, exactly the catalog rules with zone in applicable_zones and
\* billboard_type in applicable_billboard_types, in catalog order; a rule
\* whose zones exclude the billboard's zone, or whose applicability lists are
\* empty, is never returned.
C9_SelectionCorrect ==
    (Done /\ ZoneKnown /\ TypeKnown) =>
        LET zone == Lower(billboard.zone_type)
            type == Lower(billboard.billboard_type)
            self == Configs[config]
        IN  /\ IsSelection(Selected.size, SizeCatalog(self), zone, type)
            /\ IsSelection(Selected.location, self.location_restrictions, zone, type)
            /\ IsSelection(Selected.content, self.content_restrictions, zone, type)
            /\ IsSelection(Selected.safety, self.safety_requirements, zone, type)
            /\ IsSelection(Selected.administrative, self.administrative_requirements, zone, type)
            /\ \A category \in DOMAIN Selected :
                  \A i \in 1..Len(Selected[category]) :
                      /\ zone \in Range(Selected[category][i].applicable_zones)
                      /\ Selected[category][i].applicable_zones # <<>>
                      /\ Selected[category][i].applicable_billboard_types # <<>>

\* a call that selected the first and the third of three location rules, the
\* second having empty applicability lists
C9_Witness ==
    /\ Done /\ ZoneKnown /\ TypeKnown
    /\ Len(Configs[config].location_restrictions) = 3
    /\ Configs[config].location_restrictions[2].applicable_zones = <<>>
    /\ Selected.location = <<Configs[config].location_restrictions[1], Configs[config].location_restrictions[3]>>

\* C10: for every catalog, zone and billboard type the size category of
\* get_applicable_rules holds at most one rule, the one the catalog keys by
\* that zone.
C10_AtMostOneSizeRule ==
    (Done /\ ZoneKnown /\ TypeKnown) =>
        /\ Len(Selected.size) <= 1
        /\ \A i \in 1..Len(Selected.size) :
              \E k \in 1..Len(Configs[config].size_restrictions) :
                  /\ Configs[config].size_restrictions[k].key = Lower(billboard.zone_type)
                  /\ Configs[config].size_restrictions[k].value = Selected.size[i]

\* C11: all five category checks run on every evaluation, and a finding in
\* one category never suppresses the others: a call with a known
\* classification, well-formed report_data and a comparable expiry returns a
\* result whose list holds, for every selected rule of every category, the
\* violations that rule's conditions give.
C11_AllCategoriesContribute ==
    (Done /\ ZoneKnown /\ TypeKnown /\ WellFormed(report_data) /\ ExpiryComparable(billboard)) =>
        /\ outcome.status = "returned"
        /\ \A i \in 1..Len(Selected.size) :
              Messages(ByRule(outcome.value.violations, Selected.size[i]))
                  = ExpectedSize(billboard, Selected.size[i])
        /\ \A i \in 1..Len(Selected.location) :
              Messages(ByRule(outcome.value.violations, Selected.location[i]))
                  = ExpectedLocation(report_data, Selected.location[i])
        /\ \A i \in 1..Len(Selected.content) :
              Messages(ByRule(outcome.value.violations, Selected.content[i]))
                  = ExpectedContent(report_data, Selected.content[i])
        /\ \A i \in 1..Len(Selected.safety) :
              Messages(ByRule(outcome.value.violations, Selected.safety[i]))
                  = ExpectedSafety(billboard, Selected.safety[i])
        /\ \A i \in 1..Len(Selected.administrative) :
              Messages(ByRule(outcome.value.violations, Selected.administrative[i]))
                  = ExpectedAdministrative(billboard, now, Selected.administrative[i])

\* a category check of the call failed on the shape of report_data
CategoryCheckFails ==
    \/ _check_location(billboard, report_data, Selected.location).exc # NoException
    \/ _check_content(billboard, report_data, Selected.content).exc # NoException

\* C12: an exception raised inside one category's check (a location or
\* content_analysis entry that is not a mapping) is recovered locally: it is
\* logged, the category contributes no violation, and the call still returns
\* a result with the other categories' violations.  Stated for calls in which
\* no safety or administrative rule finds anything.
C12_CategoryErrorRecovered ==
    (Done /\ ZoneKnown /\ TypeKnown /\ CategoryCheckFails /\ SafetyClean /\ AdministrativeClean) =>
        /\ outcome.status = "returned"
        /\ log # <<>>
        /\ \A i \in 1..Len(Selected.size) :
              Messages(ByRule(outcome.value.violations, Selected.size[i]))
                  = ExpectedSize(billboard, Selected.size[i])

\* the rules a call selected, of all categories
AllSelected == Selected.size \o Selected.location \o Selected.content \o Selected.safety \o Selected.administrative

\* the messages the conditions of a selected rule give for the call's arguments
ExpectedMessages(rule) ==
    CASE rule.cls = "SizeRestriction" -> ExpectedSize(billboard, rule)
      [] rule.cls = "LocationRestriction" -> ExpectedLocation(report_data, rule)
      [] rule.cls = "ContentRestriction" -> ExpectedContent(report_data, rule)
      [] rule.cls = "SafetyRequirement" -> ExpectedSafety(billboard, rule)
      [] OTHER -> ExpectedAdministrative(billboard, now, rule)

\* v is the record _create_violation builds for rule
RecordOf(v, rule) ==
    /\ DOMAIN v = {"rule_id", "type", "severity", "message", "details"}
    /\ v.rule_id = rule.rule_id
    /\ v.severity = rule.severity
    /\ v.details = [rule_description |-> rule.description]
    /\ v.message \in Range(ExpectedMessages(rule))

\* C13: every violation record of a returned result carries the rule_id of
\* the rule that triggered it, that rule's severity unchanged, the message of
\* the check, and a details payload holding the rule's description; and the
\* rule is one the call selected as applicable.
C13_ViolationRecord ==
    Returned =>
        \A k \in 1..Len(outcome.value.violations) :
            \E i \in 1..Len(AllSelected) :
                RecordOf(outcome.value.violations[k], AllSelected[i])

\* a result with violations of two rules whose severities differ
C13_Witness ==
    /\ Returned
    /\ \E k, l \in 1..Len(outcome.value.violations) :
          /\ outcome.value.violations[k].rule_id = "SIZE-A"
          /\ outcome.value.violations[k].severity = "medium"
          /\ outcome.value.violations[l].rule_id = "LOC-C"
          /\ outcome.value.violations[l].severity = "critical"
          /\ outcome.value.violations[l].details.rule_description = "Intersection distance"

\* an error occurs during the call: a classification string names no member,
\* or a statement of a category check raises
ErrorOccurs ==
    \/ ~ZoneKnown
    \/ ~TypeKnown
    \/ CategoryChecks(billboard, report_data, now, Selected).exc # NoException

\* C18: every error that occurs during check_billboard_compliance (an invalid
\* classification or an exception in a category check) has produced a log
\* record when the call ends: the call that met an error ends by raising it,
\* with an ERROR record naming it in the log; no error is swallowed, and none
\* ends the call without a record.
C18_ErrorsLogged ==
    Done =>
        /\ ErrorOccurs <=> outcome.status = "raised"
        /\ ErrorOccurs =>
              /\ Len(log) = 1
              /\ log[1] = ErrorRecord(outcome.exc)
              /\ log[1].level = "ERROR"

\* a call ended by the AttributeError of a category check, and the record
C18_Witness ==
    /\ Raised
    /\ ZoneKnown /\ TypeKnown
    /\ CategoryCheckFails
    /\ outcome.exc = "AttributeError"
    /\ log = << [level |-> "ERROR", message |-> <<"Compliance check failed: ", "AttributeError">>] >>

\* all the rules of a catalog
RulesOf(self) ==
    SizeCatalog(self) \o self.location_restrictions \o self.content_restrictions
        \o self.safety_requirements \o self.administrative_requirements

\* a catalog with a configuration defect: a rule that can match nothing, or
\* two rules with one rule_id
Defective(self) ==
    \/ \E i \in 1..Len(RulesOf(self)) :
          \/ RulesOf(self)[i].applicable_zones = <<>>
          \/ RulesOf(self)[i].applicable_billboard_types = <<>>
    \/ \E i, j \in 1..Len(RulesOf(self)) :
          i # j /\ RulesOf(self)[i].rule_id = RulesOf(self)[j].rule_id

\* C17: a catalog with a configuration defect (a rule with an empty
\* applicable-zone or applicable-billboard-type list, or two rules with the
\* same rule_id) is rejected when the ComplianceConfig is constructed, so no
\* call of check_billboard_compliance runs against such a catalog.
C17_DefectiveConfigRejected == Done => ~Defective(Configs[config])

(***************************************************************************)
(* The evaluator statement by statement.  Request handlers running in      *)
(* several threads share one ComplianceChecker; each call has its own      *)
(* frame of arguments and locals; the deployment may assign a new          *)
(* ComplianceConfig to checker.config at any moment.                       *)
(***************************************************************************)
Threads == {"t1", "t2"}

Idle == [pc |-> "idle"]

\* mutant: d.setdefault(key, default), which stores the default in the dict
AfterGet_setdefault(d, key, default) ==
    IF d.type = "dict" /\ key \notin DOMAIN d.items
    THEN Dict([k \in DOMAIN d.items \cup {key} |-> IF k = key THEN default ELSE d.items[k]])
    ELSE d

\* the object d once d.get(key, default) has run: get stores nothing
AfterGet(d, key, default) == d

\* report_data once _check_location has run over rules
AfterCheckLocation(rd, rules) ==
    IF rules # <<>> /\ "location" \in DOMAIN rd
    THEN [rd EXCEPT !.location = AfterGet(@, "distance_from_intersection", Inf)]
    ELSE rd

\* report_data once _check_content has run over rules
AfterCheckContent(rd, rules) ==
    IF "content_analysis" \in DOMAIN rd /\ \E i \in 1..Len(rules) : rules[i].prohibited_content # <<>>
    THEN [rd EXCEPT !.content_analysis = AfterGet(@, "detected_content", {})]
    ELSE rd

\* mutant: every category asks self.config again for its rules
CategoryRules_reread(f, category) == get_applicable_rules(Configs[config], f.zone, f.billboard_type)[category]

\* rules["size"], ..., rules["administrative"]: the local rules holds what
\* get_applicable_rules returned for the instance self.config referred to
\* when line 25 ran (f.rules names that instance)
CategoryRules(f, category) == get_applicable_rules(Configs[f.rules], f.zone, f.billboard_type)[category]

\* the calls the threads make
SharedBillboards ==
    {b \in Billboards :
        /\ b.permit_number = "P-1"
        /\ hasattr(b, "permit_expiry_date") /\ b.permit_expiry_date = Date(MaxDay)
        /\ \/ /\ b.zone_type = "COMMERCIAL" /\ b.billboard_type = "unipoles"
              /\ b.width_meters = DefaultMaxWidth + 1 /\ b.height_meters = DefaultMaxHeight + 1
              /\ b.structural_certificate_id = "SC-1"
           \/ /\ b.zone_type = "COMMERCIAL" /\ b.billboard_type = "DIGITAL"
              /\ b.width_meters = DefaultMaxWidth /\ b.height_meters = DefaultMaxHeight
              /\ b.structural_certificate_id = None
           \/ /\ b.zone_type = "nowhere" /\ b.billboard_type = "unipoles"
              /\ b.width_meters = DefaultMaxWidth /\ b.height_meters = DefaultMaxHeight
              /\ b.structural_certificate_id = "SC-1"}

SharedReportDatas ==
    {[report_id |-> 1, location |-> Dict([latitude |-> 12, distance_from_intersection |-> DefaultMinDistance - 1])],
     [report_id |-> 1, location |-> Dict([latitude |-> 12]), content_analysis |-> Str("pending")]}

\* def check_billboard_compliance(self, billboard, report_data): a thread
\* enters the call
Begin(t, b, rd, utcnow) ==
    /\ threads[t].pc = "idle"
    /\ threads' = [threads EXCEPT ![t] =
          [pc |-> "lookup", billboard |-> b, report_data |-> rd,
           passed |-> [billboard |-> b, report_data |-> rd],
           utcnow |-> utcnow, zone |-> None, billboard_type |-> None, rules |-> None,
           violations |-> Raise(NoException), outcome |-> NoCall]]
    /\ UNCHANGED <<config, log, checkerVars, databaseVars>>

\* lines 21-27: the two enumeration lookups, rules read through self.config,
\* violations = []
Looked(f, zone, billboard_type) ==
    IF zone.exc # NoException THEN [f EXCEPT !.pc = "except", !.violations = Raise(zone.exc)]
    ELSE IF billboard_type.exc # NoException
    THEN [f EXCEPT !.pc = "except", !.violations = Raise(billboard_type.exc)]
    ELSE [f EXCEPT !.pc = "size", !.zone = zone.value, !.billboard_type = billboard_type.value,
                   !.rules = config, !.violations = Started]

Lookup(t) ==
    /\ threads[t].pc = "lookup"
    /\ threads' = [threads EXCEPT ![t] =
          Looked(@, EnumByValue(ZoneType, Lower(@.billboard.zone_type)),
                    EnumByValue(BillboardType, Lower(@.billboard.billboard_type)))]
    /\ UNCHANGED <<config, log, checkerVars, databaseVars>>

\* violations.extend(found): the frame after one of lines 29-33
Checked(f, found, rd, next) ==
    [f EXCEPT !.violations = Extend(@, found),
              !.report_data = rd,
              !.pc = IF found.exc # NoException THEN "except" ELSE next]

CheckSize(t) ==
    /\ threads[t].pc = "size"
    /\ threads' = [threads EXCEPT ![t] =
          Checked(@, _check_size(@.billboard, CategoryRules(@, "size")), @.report_data, "location")]
    /\ UNCHANGED <<config, log, checkerVars, databaseVars>>

CheckLocation(t) ==
    /\ threads[t].pc = "location"
    /\ threads' = [threads EXCEPT ![t] =
          Checked(@, _check_location(@.billboard, @.report_data, CategoryRules(@, "location")),
                  AfterCheckLocation(@.report_data, CategoryRules(@, "location")), "content")]
    /\ UNCHANGED <<config, log, checkerVars, databaseVars>>

CheckContent(t) ==
    /\ threads[t].pc = "content"
    /\ threads' = [threads EXCEPT ![t] =
          Checked(@, _check_content(@.billboard, @.report_data, CategoryRules(@, "content")),
                  AfterCheckContent(@.report_data, CategoryRules(@, "content")), "safety")]
    /\ UNCHANGED <<config, log, checkerVars, databaseVars>>

CheckSafety(t) ==
    /\ threads[t].pc = "safety"
    /\ threads' = [threads EXCEPT ![t] =
          Checked(@, _check_safety(@.billboard, CategoryRules(@, "safety")), @.report_data, "administrative")]
    /\ UNCHANGED <<config, log, checkerVars, databaseVars>>

CheckAdministrative(t) ==
    /\ threads[t].pc = "administrative"
    /\ threads' = [threads EXCEPT ![t] =
          Checked(@, _check_administrative(@.billboard, @.utcnow, CategoryRules(@, "administrative")),
                  @.report_data, "return")]
    /\ UNCHANGED <<config, log, checkerVars, databaseVars>>

\* the frame of a call that has ended
EndedWith(f, out) == [f EXCEPT !.pc = "done", !.outcome = out]

\* lines 35-40: the result dictionary goes to the caller
Return(t) ==
    /\ threads[t].pc = "return"
    /\ threads' = [threads EXCEPT ![t] = EndedWith(@, Outcome(Result(@.billboard, @.utcnow, @.violations)))]
    /\ UNCHANGED <<config, log, checkerVars, databaseVars>>

\* a log record as the logging module keeps it, with the thread that made it
ThreadRecord(t, e) == [thread |-> t, record |-> ErrorRecord(e)]

\* lines 42-44: the error is logged and raised again
Except(t) ==
    /\ threads[t].pc = "except"
    /\ log' = Append(log, ThreadRecord(t, threads[t].violations.exc))
    /\ threads' = [threads EXCEPT ![t] = EndedWith(@, Outcome([exc |-> @.violations.exc]))]
    /\ UNCHANGED <<config, checkerVars, databaseVars>>

\* the caller has the outcome, the thread's records have gone to the sink
Finish(t) ==
    /\ threads[t].pc = "done"
    /\ threads' = [threads EXCEPT ![t] = Idle]
    /\ log' = SelectSeq(log, LAMBDA r : r.thread # t)
    /\ UNCHANGED <<config, checkerVars, databaseVars>>

\* checker.config = c: the deployment loads another catalog
Swap(c) ==
    /\ c # config
    /\ config' = c
    /\ UNCHANGED <<log, threads, checkerVars, databaseVars>>

InitThreads ==
    /\ config \in DOMAIN Configs
    /\ pc = "idle"
    /\ billboard = NoCall
    /\ report_data = NoCall
    /\ now = 0
    /\ outcome = NoCall
    /\ log = <<>>
    /\ threads = [t \in Threads |-> Idle]
    /\ NoDatabase

NextThreads ==
    \/ \E t \in Threads, b \in SharedBillboards, rd \in SharedReportDatas, utcnow \in ExpiryDays : Begin(t, b, rd, utcnow)
    \/ \E t \in Threads : Lookup(t)
    \/ \E t \in Threads : CheckSize(t)
    \/ \E t \in Threads : CheckLocation(t)
    \/ \E t \in Threads : CheckContent(t)
    \/ \E t \in Threads : CheckSafety(t)
    \/ \E t \in Threads : CheckAdministrative(t)
    \/ \E t \in Threads : Return(t)
    \/ \E t \in Threads : Except(t)
    \/ \E t \in Threads : Finish(t)
    \/ \E c \in DOMAIN Configs : Swap(c)

SpecThreads == InitThreads /\ [][NextThreads]_vars

\* a thread's call has ended
Ended(t) == threads[t].pc = "done"

\* the call as one step against one catalog
Atomic(c, f) == Outcome(check_billboard_compliance(Configs[c], f.passed.billboard, f.passed.report_data, f.utcnow))

\* two calls were given the same arguments, read the clock alike, and read
\* their rules from the same ComplianceConfig
SameEvaluation(f, g) ==
    /\ f.passed = g.passed
    /\ f.utcnow = g.utcnow
    /\ f.rules = g.rules

\* C14: evaluating the same (config, billboard, report context) twice at the
\* same evaluation time yields identical outcomes, violation lists included,
\* whatever calls ran before, between or beside the two: the checker keeps
\* no state between calls.
C14_Idempotent ==
    \A s, t \in Threads :
        (Ended(s) /\ Ended(t) /\ SameEvaluation(threads[s], threads[t])) =>
            threads[s].outcome = threads[t].outcome

\* two calls with the same arguments have both returned three violations,
\* and checker.config has been replaced since
C14_Witness ==
    /\ Ended("t1") /\ Ended("t2")
    /\ SameEvaluation(threads["t1"], threads["t2"])
    /\ threads["t1"].rules # config
    /\ threads["t1"].outcome.status = "returned"
    /\ Len(threads["t1"].outcome.value.violations) = 4
    /\ threads["t2"].outcome.value.violations = threads["t1"].outcome.value.violations

C16_SingleConfig ==
    \A t \in Threads :
        Ended(t) =>
            \E c \in DOMAIN Configs :
                /\ threads[t].rules \in {None, c}
                /\ threads[t].outcome = Atomic(c, threads[t])

\* a call that has run its five categories and not yet returned, while
\* checker.config was replaced and another call, in flight, reads the new
\* catalog: its violations are those of the catalog it started with
C16_Witness ==
    /\ threads["t1"].pc = "return"
    /\ threads["t1"].rules = "default"
    /\ config = "two_zone"
    /\ threads["t2"].pc = "location"
    /\ threads["t2"].rules = "two_zone"
    /\ Outcome(Result(threads["t1"].billboard, threads["t1"].utcnow, threads["t1"].violations)) = Atomic("default", threads["t1"])
    /\ Atomic("default", threads["t1"]) # Atomic("two_zone", threads["t1"])

(***************************************************************************)
(* crud.py: the endpoints that write reports and violations, over the      *)
(* tables of the database session.  current_user is the active user the    *)
(* authentication dependency hands to the endpoint.                        *)
(***************************************************************************)
UserRole == [CITIZEN |-> "citizen", INSPECTOR |-> "inspector", ADMIN |-> "admin"]

ReportStatus == [PENDING |-> "pending", IN_REVIEW |-> "in_review", RESOLVED |-> "resolved", REJECTED |-> "rejected"]

MaxReports == 2
MaxViolations == 2

Users == {[id |-> 1, role |-> UserRole.CITIZEN], [id |-> 2, role |-> UserRole.INSPECTOR], [id |-> 3, role |-> UserRole.ADMIN]}

\* schemas.ReportCreate, and whether an image comes with it
ReportCreates == [billboard_id : {1}, description : {"billboard at the junction"}]

Images == {None, "photo.jpg"}

\* schemas.ViolationCreate; report MaxReports + 1 does not exist
ViolationCreates ==
    [report_id : {1, MaxReports + 1}, billboard_id : {1},
     violation_type : {ViolationType.SIZE_VIOLATION},
     severity : {"high"}]

EmptyTables == [reports |-> <<>>, violations |-> <<>>]

\* the reports table the session finds: empty, or one report stored earlier,
\* in any status of models.ReportStatus
StoredReports ==
    {<<>>} \cup
    {<<[id |-> 1, billboard_id |-> 1, description |-> "hoarding on the flyover", reporter_id |-> 1,
        image_url |-> None, status |-> ReportStatus[s]]>> : s \in DOMAIN ReportStatus}

\* mutant: only a role that is none of the three is refused
Forbidden_unknown_role(current_user) == ~InList(current_user.role, <<"citizen", "inspector", "admin">>)

\* current_user.role not in ["inspector", "admin"]
Forbidden(current_user) == ~InList(current_user.role, <<"inspector", "admin">>)

\* raise HTTPException(status_code=status.HTTP_403_FORBIDDEN, detail=...)
HTTPException(call, current_user, request, detail) ==
    [call |-> call, user |-> current_user, request |-> request, status_code |-> 403, detail |-> detail]

\* the endpoint returned body
Served(call, current_user, request, body) ==
    [call |-> call, user |-> current_user, request |-> request, status_code |-> 200, body |-> body]

\* models.Report(**report.dict(), reporter_id=..., image_url=..., status=PENDING)
NewReport(tables, report, current_user, image) ==
    [id |-> Len(tables.reports) + 1,
     billboard_id |-> report.billboard_id,
     description |-> report.description,
     reporter_id |-> current_user.id,
     image_url |-> IF image = None THEN None ELSE <<"/uploads/", image>>,
     status |-> ReportStatus.PENDING]

create_report(report, image, current_user) ==
    /\ Len(db.reports) < MaxReports
    /\ db' = [db EXCEPT !.reports = Append(@, NewReport(db, report, current_user, image))]
    /\ response' = Served("create_report", current_user, report, NewReport(db, report, current_user, image))
    /\ UNCHANGED <<config, log, threads, clock, checkerVars>>

\* models.Violation(**violation.dict(), reporter_id=current_user.id, status="reported")
NewViolation(tables, violation, current_user) ==
    [id |-> Len(tables.violations) + 1,
     report_id |-> violation.report_id,
     billboard_id |-> violation.billboard_id,
     violation_type |-> violation.violation_type,
     severity |-> violation.severity,
     reporter_id |-> current_user.id,
     status |-> "reported"]

\* mutant: only a pending report is moved to IN_REVIEW
InReview_pending_only(reports, report_id) ==
    [i \in 1..Len(reports) |->
        IF reports[i].id = report_id /\ reports[i].status = ReportStatus.PENDING
        THEN [reports[i] EXCEPT !.status = ReportStatus.IN_REVIEW]
        ELSE reports[i]]

\* report = db.query(models.Report).filter(id == report_id).first();
\* if report: report.status = IN_REVIEW
InReview(reports, report_id) ==
    [i \in 1..Len(reports) |->
        IF reports[i].id = report_id THEN [reports[i] EXCEPT !.status = ReportStatus.IN_REVIEW]
        ELSE reports[i]]

create_violation(violation, current_user) ==
    /\ Forbidden(current_user) \/ Len(db.violations) < MaxViolations
    /\ IF Forbidden(current_user)
       THEN /\ response' = HTTPException("create_violation", current_user, violation,
                                         "Not enough permissions to create violation")
            /\ UNCHANGED db
       ELSE /\ db' = [reports |-> InReview(db.reports, violation.report_id),
                      violations |-> Append(db.violations, NewViolation(db, violation, current_user))]
            /\ response' = Served("create_violation", current_user, violation,
                                  NewViolation(db, violation, current_user))
    /\ UNCHANGED <<config, log, threads, clock, checkerVars>>

InitCrud ==
    /\ config = "default"
    /\ pc = "idle"
    /\ billboard = NoCall
    /\ report_data = NoCall
    /\ now = 0
    /\ outcome = NoCall
    /\ log = <<>>
    /\ threads = NoThreads
    /\ db \in {[EmptyTables EXCEPT !.reports = stored] : stored \in StoredReports}
    /\ response = NoCall
    /\ clock = 0

NextCrud ==
    \/ \E report \in ReportCreates, image \in Images, current_user \in Users : create_report(report, image, current_user)
    \/ \E violation \in ViolationCreates, current_user \in Users : create_violation(violation, current_user)

SpecCrud == InitCrud /\ [][NextCrud]_vars

\* the last request served was create_violation by a user who is neither
\* inspector nor admin
ByOrdinaryUser(r) ==
    /\ "call" \in DOMAIN r
    /\ r.call = "create_violation"
    /\ r.user.role \notin {UserRole.INSPECTOR, UserRole.ADMIN}

\* C19: create_violation called by a user whose role is neither inspector nor
\* admin is answered 403 Forbidden and changes nothing: the step that serves
\* it leaves the violations table and every report, status included, as
\* they were.
C19_ForbiddenChangesNothing ==
    [][ByOrdinaryUser(response') =>
          /\ response'.status_code = 403
          /\ db' = db]_vars

\* a citizen's violation against a pending report was refused: the report is
\* still pending and there is no violation
C19_Witness ==
    /\ ByOrdinaryUser(response)
    /\ response.user.role = UserRole.CITIZEN
    /\ response.status_code = 403
    /\ response.request.report_id = 1
    /\ Len(db.reports) >= 1
    /\ db.reports[1].status = ReportStatus.PENDING
    /\ db.violations = <<>>

(***************************************************************************)
(* services/consent_manager.py: the consent queries, over the consents     *)
(* table of the database session.  A row has the columns the queries       *)
(* read: user_id, consent_type, status, expires_at.                        *)
(***************************************************************************)
ConsentStatus == [ACTIVE |-> "ACTIVE", REVOKED |-> "REVOKED", EXPIRED |-> "EXPIRED"]

CONSENT_REQUIREMENTS ==
    [photo_upload |->
        << [type |-> "privacy_policy", title |-> "Privacy Policy",
            description |-> "Agree to our privacy policy and data processing terms.",
            required |-> TRUE, default_expiry_days |-> 365],
           [type |-> "location_tracking", title |-> "Location Services",
            description |-> "Allow us to access your location to tag reports with geolocation data.",
            required |-> FALSE, default_expiry_days |-> 90],
           [type |-> "camera_access", title |-> "Camera Access",
            description |-> "Allow access to your camera to take photos of billboards.",
            required |-> TRUE, default_expiry_days |-> 365] >>,
     analytics |->
        << [type |-> "usage_statistics", title |-> "Usage Statistics",
            description |-> "Allow us to collect anonymous usage statistics to improve our service.",
            required |-> FALSE, default_expiry_days |-> 365] >>]

\* CONSENT_REQUIREMENTS.get(feature, [])
get_required_consents(feature) ==
    IF feature \in DOMAIN CONSENT_REQUIREMENTS THEN CONSENT_REQUIREMENTS[feature] ELSE <<>>

\* mutant: the query does not filter on expires_at
has_consent_unexpiring(rows, utcnow, user_id, consent_type, require_active) ==
    \E i \in 1..Len(rows) :
        /\ rows[i].user_id = user_id
        /\ rows[i].consent_type = consent_type
        /\ rows[i].status = ConsentStatus.ACTIVE

\* query.first() is not None, the query filtered on user, type, ACTIVE and
\* expires_at > utcnow, and then, if not require_active, on ACTIVE or EXPIRED
has_consent(rows, utcnow, user_id, consent_type, require_active) ==
    \E i \in 1..Len(rows) :
        /\ rows[i].user_id = user_id
        /\ rows[i].consent_type = consent_type
        /\ rows[i].status = ConsentStatus.ACTIVE
        /\ rows[i].expires_at > utcnow
        /\ ~require_active => rows[i].status \in {ConsentStatus.ACTIVE, ConsentStatus.EXPIRED}

\* consent_req.get("required", True)
IsRequired(consent_req) == IF "required" \in DOMAIN consent_req THEN consent_req.required ELSE TRUE

\* one pass of the loop of check_feature_access
FeatureStep(result, consent_req, granted) ==
    [has_access |-> result.has_access /\ ~(IsRequired(consent_req) /\ ~granted),
     missing_consents |->
        IF IsRequired(consent_req) /\ ~granted
        THEN Append(result.missing_consents, consent_req.type)
        ELSE result.missing_consents,
     required_consents |->
        Append(result.required_consents,
               [type |-> consent_req.type, title |-> consent_req.title,
                description |-> consent_req.description,
                required |-> IsRequired(consent_req), granted |-> granted])]

RECURSIVE FeatureLoop(_, _, _, _, _)
FeatureLoop(result, rows, utcnow, user_id, required_consents) ==
    IF required_consents = <<>> THEN result
    ELSE FeatureLoop(FeatureStep(result, Head(required_consents),
                                 has_consent(rows, utcnow, user_id, Head(required_consents).type, TRUE)),
                     rows, utcnow, user_id, Tail(required_consents))

check_feature_access(rows, utcnow, user_id, feature) ==
    FeatureLoop([has_access |-> TRUE, missing_consents |-> <<>>, required_consents |-> <<>>],
                rows, utcnow, user_id, get_required_consents(feature))

MaxConsents == 3
MaxClock == 2

\* the rows a consents table may hold: those of user 1, and two of user 2
ConsentRows ==
    [user_id : {1},
     consent_type : {"privacy_policy", "location_tracking", "camera_access", "usage_statistics"},
     status : {ConsentStatus.ACTIVE, ConsentStatus.REVOKED},
     expires_at : {1, MaxClock}]
    \cup [user_id : {2}, consent_type : {"privacy_policy", "camera_access"},
          status : {ConsentStatus.ACTIVE}, expires_at : {MaxClock}]

\* a table of the rows of a set, in some order
RECURSIVE Table(_)
Table(rows) ==
    IF rows = {} THEN <<>>
    ELSE LET row == CHOOSE r \in rows : TRUE
         IN  <<row>> \o Table(rows \ {row})

Features == {"photo_upload", "analytics", "billing"}

\* a request handler asks whether user_id may use feature
CheckFeatureAccess(user_id, feature) ==
    /\ response' = [call |-> "check_feature_access", user_id |-> user_id, feature |-> feature,
                    at |-> clock,
                    result |-> check_feature_access(db.consents, clock, user_id, feature)]
    /\ UNCHANGED <<config, log, threads, db, clock, checkerVars>>

\* time passes
Tick ==
    /\ clock < MaxClock
    /\ clock' = clock + 1
    /\ UNCHANGED <<config, log, threads, db, response, checkerVars>>

InitConsent ==
    /\ config = "default"
    /\ pc = "idle"
    /\ billboard = NoCall
    /\ report_data = NoCall
    /\ now = 0
    /\ outcome = NoCall
    /\ log = <<>>
    /\ threads = NoThreads
    /\ \E rows \in SUBSET ConsentRows :
          /\ Cardinality(rows) <= MaxConsents
          /\ db = [consents |-> Table(rows)]
    /\ response = NoCall
    /\ clock = 1

NextConsent ==
    \/ \E user_id \in {1, 2}, feature \in Features : CheckFeatureAccess(user_id, feature)
    \/ Tick

SpecConsent == InitConsent /\ [][NextConsent]_vars

\* the last request served was check_feature_access
AccessChecked == "call" \in DOMAIN response /\ response.call = "check_feature_access"

\* the user of the request held, when it was served, an active consent of the
\* type that had not expired
Held(consent_type) ==
    \E i \in 1..Len(db.consents) :
        /\ db.consents[i].user_id = response.user_id
        /\ db.consents[i].consent_type = consent_type
        /\ db.consents[i].status = ConsentStatus.ACTIVE
        /\ db.consents[i].expires_at > response.at

\* what the feature of the request asks for
Asked == IF response.feature \in DOMAIN CONSENT_REQUIREMENTS THEN CONSENT_REQUIREMENTS[response.feature] ELSE <<>>

\* C20: check_feature_access(user, feature) answers has_access = true iff the
\* user holds an active, unexpired consent of every type the feature marks
\* required; missing_consents lists exactly the required types not held, in
\* the feature's order; a consent marked optional (location_tracking,
\* usage_statistics) is never missing and never blocks; an unknown feature
\* gives has_access = true with empty lists.
C20_FeatureAccess ==
    AccessChecked =>
        /\ response.result.has_access <=>
              \A i \in 1..Len(Asked) : Asked[i].required => Held(Asked[i].type)
        /\ response.result.missing_consents =
              LET missing == SelectSeq(Asked, LAMBDA req : req.required /\ ~Held(req.type))
              IN  [k \in 1..Len(missing) |-> missing[k].type]
        /\ \A k \in 1..Len(response.result.missing_consents) :
              response.result.missing_consents[k] \notin {"location_tracking", "usage_statistics"}
        /\ Len(response.result.required_consents) = Len(Asked)
        /\ \A i \in 1..Len(Asked) :
              /\ response.result.required_consents[i].type = Asked[i].type
              /\ response.result.required_consents[i].granted = Held(Asked[i].type)
        /\ response.feature \notin DOMAIN CONSENT_REQUIREMENTS =>
              response.result = [has_access |-> TRUE, missing_consents |-> <<>>, required_consents |-> <<>>]

\* photo_upload was granted to a user who holds both required consents and
\* whose only location_tracking consent has expired
C20_Witness ==
    /\ AccessChecked
    /\ response.feature = "photo_upload"
    /\ response.result.has_access
    /\ response.result.missing_consents = <<>>
    /\ response.result.required_consents[2].type = "location_tracking"
    /\ ~response.result.required_consents[2].granted
    /\ \E i \in 1..Len(db.consents) :
          /\ db.consents[i].user_id = response.user_id
          /\ db.consents[i].consent_type = "location_tracking"
          /\ db.consents[i].status = ConsentStatus.ACTIVE
          /\ db.consents[i].expires_at <= response.at

\* the billboard has no permit-expiry date: the attribute is absent, or it
\* is there and holds None
NoExpiryDate(b) == hasattr(b, "permit_expiry_date") => b.permit_expiry_date.is_none

\* no applicable administrative rule finds the permit missing
PermitHeld == \A i \in 1..Len(Selected.administrative) : ~(Selected.administrative[i].requires_permit /\ Falsy(billboard.permit_number))

\* C25: a billboard with no permit-expiry date, the field absent or holding
\* None, gets no "Permit expired" violation and its evaluation returns a
\* result, whatever administrative rules apply.  Stated for calls in which
\* nothing else can fail: known classification, well-formed report_data, no
\* safety finding and no missing permit.
C25_NoExpiryDateCompletes ==
    (Done /\ ZoneKnown /\ TypeKnown /\ WellFormed(report_data) /\ SafetyClean
          /\ PermitHeld /\ NoExpiryDate(billboard)) =>
        /\ outcome.status = "returned"
        /\ \A i \in 1..Len(outcome.value.violations) : outcome.value.violations[i].message # "Permit expired"

(***************************************************************************)
(* crud.py: the life of a report's status.                                 *)
(***************************************************************************)
\* the step adds a violation that refers to report_id: create_violation got
\* past its role check and committed
ViolationCreatedFor(report_id) ==
    /\ Len(db'.violations) = Len(db.violations) + 1
    /\ db'.violations[Len(db'.violations)].report_id = report_id
    /\ response'.call = "create_violation"
    /\ response'.status_code = 200

\* C28: a create_violation that succeeds and refers to an existing report
\* leaves that report IN_REVIEW whatever its status was (PENDING, IN_REVIEW,
\* RESOLVED or REJECTED); no other step changes the status of a report that
\* exists, and a report that a step adds starts as PENDING.
C28_ReportStatusLife ==
    [][/\ Len(db'.reports) >= Len(db.reports)
       /\ \A i \in 1..Len(db.reports) :
             /\ ViolationCreatedFor(db.reports[i].id) => db'.reports[i].status = ReportStatus.IN_REVIEW
             /\ db'.reports[i].status # db.reports[i].status => ViolationCreatedFor(db.reports[i].id)
             /\ db'.reports[i].id = db.reports[i].id
       /\ \A i \in (Len(db.reports) + 1)..Len(db'.reports) : db'.reports[i].status = ReportStatus.PENDING]_vars

\* an inspector's violation against report 1 was stored, the report is in
\* review, and a second report, created meanwhile, is still pending
C28_Witness ==
    /\ response # NoCall
    /\ response.call = "create_violation"
    /\ response.status_code = 200
    /\ response.user.role = UserRole.INSPECTOR
    /\ response.request.report_id = 1
    /\ Len(db.violations) = 1
    /\ Len(db.reports) = 2
    /\ db.reports[1].status = ReportStatus.IN_REVIEW
    /\ db.reports[2].status = ReportStatus.PENDING

(***************************************************************************)
(* services/consent_manager.py: the operations that write consent records, *)
(* and the audit entries they log.  A consent record has the columns the   *)
(* manager reads or writes: id, user_id, consent_type, status, expires_at, *)
(* version, metadata, granted_at, updated_at (0 until the first update).   *)
(* An audit entry has the columns AuditLogger._log_to_database fills.      *)
(***************************************************************************)
AuditAction == [CREATE |-> "create", UPDATE |-> "update"]

\* AuditLogger.log: the entry _log_to_database adds to the audit table
AuditLog(action, resource_type, resource_id, user_id, details, utcnow) ==
    [action |-> action, resource_type |-> resource_type, resource_id |-> resource_id,
     user_id |-> user_id, details |-> details, status |-> "success", timestamp |-> utcnow]

\* query.filter(...).first(): <<row>> for the first row that passes, <<>> for
\* None
First(rows, Passes(_)) == SubSeq(SelectSeq(rows, Passes), 1, IF SelectSeq(rows, Passes) = <<>> THEN 0 ELSE 1)

\* mutant: the owner of the record is not verified
get_consent_any_owner(rows, consent_id, user_id) == First(rows, LAMBDA row : row.id = consent_id)

\* update_consent always passes the user, so the ownership filter is applied
get_consent(rows, consent_id, user_id) == First(rows, LAMBDA row : row.id = consent_id /\ row.user_id = user_id)

\* for field, value in update_data.items(): setattr(db_consent, field, value);
\* db_consent.updated_at = utcnow
SetAttrs(db_consent, update_data, utcnow) ==
    [field \in DOMAIN db_consent |->
        IF field = "updated_at" THEN utcnow
        ELSE IF field \in DOMAIN update_data THEN update_data[field]
        ELSE db_consent[field]]

\* the tables after the commit and the audit entry of update_consent
Updated(tables, utcnow, db_consent, update_data, user_id) ==
    [consents |-> [i \in 1..Len(tables.consents) |->
                      IF tables.consents[i].id = db_consent.id
                      THEN SetAttrs(db_consent, update_data, utcnow)
                      ELSE tables.consents[i]],
     audit_logs |-> Append(tables.audit_logs,
                      AuditLog(AuditAction.UPDATE, "consent", IntToStr(db_consent.id), user_id,
                               [previous_status |-> db_consent.status,
                                new_status |-> SetAttrs(db_consent, update_data, utcnow).status,
                                updated_fields |-> DOMAIN update_data],
                               utcnow))]

\* if not db_consent: raise ValueError("Consent not found")
UpdateFound(tables, utcnow, found, update_data, user_id) ==
    IF found = <<>>
    THEN [exc |-> "ValueError", message |-> "Consent not found", tables |-> tables]
    ELSE [exc |-> NoException, tables |-> Updated(tables, utcnow, found[1], update_data, user_id),
          value |-> SetAttrs(found[1], update_data, utcnow)]

update_consent(tables, utcnow, consent_id, update_data, user_id) ==
    UpdateFound(tables, utcnow, get_consent(tables.consents, consent_id, user_id), update_data, user_id)

\* ConsentUpdate(status=ConsentStatus.REVOKED).dict(exclude_unset=True)
revoke_consent(tables, utcnow, consent_id, user_id) ==
    update_consent(tables, utcnow, consent_id, [status |-> ConsentStatus.REVOKED], user_id)

\* the query of create_consent: the user's active, unexpired consent of the
\* type, if there is one
Existing(rows, utcnow, user_id, consent_type) ==
    First(rows, LAMBDA row : /\ row.user_id = user_id
                             /\ row.consent_type = consent_type
                             /\ row.status = ConsentStatus.ACTIVE
                             /\ row.expires_at > utcnow)

\* models.Consent(**consent_data.dict(), user_id=..., granted_at=utcnow, ...),
\* with the id the database gives it
NewConsent(tables, utcnow, consent_data, user_id) ==
    [id |-> Len(tables.consents) + 1,
     user_id |-> user_id,
     consent_type |-> consent_data.consent_type,
     status |-> consent_data.status,
     expires_at |-> consent_data.expires_at,
     version |-> consent_data.version,
     metadata |-> consent_data.metadata,
     granted_at |-> utcnow,
     updated_at |-> 0]

\* the tables after the commit and the audit entry of the creating branch
Created(tables, utcnow, db_consent, user_id) ==
    [consents |-> Append(tables.consents, db_consent),
     audit_logs |-> Append(tables.audit_logs,
                      AuditLog(AuditAction.CREATE, "consent", IntToStr(db_consent.id), user_id,
                               [consent_type |-> db_consent.consent_type,
                                status |-> db_consent.status,
                                version |-> db_consent.version],
                               utcnow))]

\* mutant: a record is added whether or not the user has an active one
CreateOrUpdate_always_add(tables, utcnow, existing, consent_data, user_id) ==
    [exc |-> NoException,
     tables |-> Created(tables, utcnow, NewConsent(tables, utcnow, consent_data, user_id), user_id),
     value |-> NewConsent(tables, utcnow, consent_data, user_id)]

\* if existing: return self.update_consent(existing.id, ConsentUpdate(...));
\* else add the new record
CreateOrUpdate(tables, utcnow, existing, consent_data, user_id) ==
    IF existing # <<>>
    THEN update_consent(tables, utcnow, existing[1].id,
                        [status |-> consent_data.status, expires_at |-> consent_data.expires_at,
                         version |-> consent_data.version, metadata |-> consent_data.metadata],
                        user_id)
    ELSE [exc |-> NoException,
          tables |-> Created(tables, utcnow, NewConsent(tables, utcnow, consent_data, user_id), user_id),
          value |-> NewConsent(tables, utcnow, consent_data, user_id)]

create_consent(tables, utcnow, consent_data, user_id) ==
    CreateOrUpdate(tables, utcnow, Existing(tables.consents, utcnow, user_id, consent_data.consent_type),
                   consent_data, user_id)

MaxWrites == 2

\* a record stored before the session: a privacy_policy consent
StoredConsent(id, user_id, status, expires_at) ==
    [id |-> id, user_id |-> user_id, consent_type |-> "privacy_policy", status |-> status,
     expires_at |-> expires_at, version |-> "1.0", metadata |-> "web", granted_at |-> 0, updated_at |-> 0]

\* the consents tables the session may find: empty; one consent of user 1,
\* active and running, active but past its expiry, marked expired, or
\* revoked; one of user 2; and three tables of two consents
StoredTables ==
    {<<>>,
     <<StoredConsent(1, 1, ConsentStatus.ACTIVE, MaxClock + 1)>>,
     <<StoredConsent(1, 1, ConsentStatus.ACTIVE, 1)>>,
     <<StoredConsent(1, 1, ConsentStatus.EXPIRED, 1)>>,
     <<StoredConsent(1, 1, ConsentStatus.REVOKED, MaxClock + 1)>>,
     <<StoredConsent(1, 2, ConsentStatus.ACTIVE, MaxClock + 1)>>,
     <<StoredConsent(1, 1, ConsentStatus.ACTIVE, MaxClock + 1), StoredConsent(2, 2, ConsentStatus.ACTIVE, MaxClock + 1)>>,
     <<StoredConsent(1, 1, ConsentStatus.ACTIVE, MaxClock + 1), StoredConsent(2, 1, ConsentStatus.ACTIVE, MaxClock + 1)>>,
     <<StoredConsent(1, 1, ConsentStatus.EXPIRED, 1), StoredConsent(2, 1, ConsentStatus.ACTIVE, 1)>>}

\* schemas.consent.ConsentCreate, as create_consent reads it
ConsentCreates ==
    {[consent_type |-> "privacy_policy", status |-> ConsentStatus.ACTIVE, expires_at |-> MaxClock,
      version |-> "2.0", metadata |-> "app"],
     [consent_type |-> "privacy_policy", status |-> ConsentStatus.REVOKED, expires_at |-> MaxClock + 1,
      version |-> "1.1", metadata |-> "kiosk"],
     [consent_type |-> "camera_access", status |-> ConsentStatus.ACTIVE, expires_at |-> MaxClock + 1,
      version |-> "1.0", metadata |-> "web"]}

\* what the caller gets: the record returned, or the exception raised
Answer(r) == IF r.exc = NoException THEN [exc |-> NoException, value |-> r.value] ELSE [exc |-> r.exc, message |-> r.message]

\* a request handler calls create_consent for user_id
CreateConsent(consent_data, user_id) ==
    /\ Len(db.audit_logs) < MaxWrites
    /\ db' = create_consent(db, clock, consent_data, user_id).tables
    /\ response' = [call |-> "create_consent", user_id |-> user_id, consent_data |-> consent_data, at |-> clock,
                    result |-> Answer(create_consent(db, clock, consent_data, user_id))]
    /\ UNCHANGED <<config, log, threads, clock, checkerVars>>

\* a request handler calls revoke_consent; a ValueError leaves the session
\* as it was
RevokeConsent(consent_id, user_id) ==
    /\ revoke_consent(db, clock, consent_id, user_id).exc # NoException \/ Len(db.audit_logs) < MaxWrites
    /\ db' = revoke_consent(db, clock, consent_id, user_id).tables
    /\ response' = [call |-> "revoke_consent", user_id |-> user_id, consent_id |-> consent_id, at |-> clock,
                    result |-> Answer(revoke_consent(db, clock, consent_id, user_id))]
    /\ UNCHANGED <<config, log, threads, clock, checkerVars>>

\* a request handler calls has_consent
HasConsent(user_id, consent_type, require_active) ==
    /\ response' = [call |-> "has_consent", user_id |-> user_id, consent_type |-> consent_type,
                    require_active |-> require_active, at |-> clock,
                    result |-> has_consent(db.consents, clock, user_id, consent_type, require_active)]
    /\ UNCHANGED <<config, log, threads, db, clock, checkerVars>>

InitRecords ==
    /\ config = "default"
    /\ pc = "idle"
    /\ billboard = NoCall
    /\ report_data = NoCall
    /\ now = 0
    /\ outcome = NoCall
    /\ log = <<>>
    /\ threads = NoThreads
    /\ db \in {[consents |-> consents, audit_logs |-> <<>>] : consents \in StoredTables}
    /\ response = NoCall
    /\ clock = 1

NextRecords ==
    \/ \E consent_data \in ConsentCreates : CreateConsent(consent_data, 1)
    \/ \E consent_id \in 1..3, user_id \in {1, 2} : RevokeConsent(consent_id, user_id)
    \/ \E require_active \in BOOLEAN : HasConsent(1, "privacy_policy", require_active)
    \/ Tick

SpecRecords == InitRecords /\ [][NextRecords]_vars

\* the last request served was call
Served_call(call) == "call" \in DOMAIN response /\ response.call = call

\* the user of the request holds a consent of the type in one of the statuses
HoldsIn(statuses) ==
    \E i \in 1..Len(db.consents) :
        /\ db.consents[i].user_id = response.user_id
        /\ db.consents[i].consent_type = response.consent_type
        /\ db.consents[i].status \in statuses

\* C22: has_consent with require_active = False answers true when the user
\* holds a consent of the type whose status is ACTIVE or EXPIRED; with
\* require_active = True it answers true only for an ACTIVE consent whose
\* expires_at is in the future.
C22_RequireActive ==
    Served_call("has_consent") =>
        IF response.require_active
        THEN response.result <=>
                \E i \in 1..Len(db.consents) :
                    /\ db.consents[i].user_id = response.user_id
                    /\ db.consents[i].consent_type = response.consent_type
                    /\ db.consents[i].status = ConsentStatus.ACTIVE
                    /\ db.consents[i].expires_at > response.at
        ELSE response.result <=> HoldsIn({ConsentStatus.ACTIVE, ConsentStatus.EXPIRED})

\* the step serves a call of the manager (time stands still while it runs)
Serves(call) == "call" \in DOMAIN response' /\ response'.call = call /\ response'.at = clock /\ clock' = clock

\* the positions of the records with the id that belong to the user
Owned(rows, consent_id, user_id) == {i \in 1..Len(rows) : rows[i].id = consent_id /\ rows[i].user_id = user_id}

\* the user holds an active, unexpired consent of the type at a position
\* other than i
AnotherActive(rows, utcnow, i) ==
    \E j \in 1..Len(rows) :
        /\ j # i
        /\ rows[j].user_id = rows[i].user_id
        /\ rows[j].consent_type = rows[i].consent_type
        /\ rows[j].status = ConsentStatus.ACTIVE
        /\ rows[j].expires_at > utcnow

\* C21: revoke_consent(consent_id, user_id) on a consent of that user sets
\* its status to REVOKED, and has_consent for the user and the type is then
\* true only if the user holds another active, unexpired consent of the
\* type; on a consent that does not exist or belongs to another user it
\* raises ValueError("Consent not found") and leaves every consent record
\* and the audit entries as they were.
C21_Revoke ==
    [][Serves("revoke_consent") =>
          IF Owned(db.consents, response'.consent_id, response'.user_id) # {}
          THEN /\ response'.result.exc = NoException
               /\ Len(db'.consents) = Len(db.consents)
               /\ \A i \in Owned(db.consents, response'.consent_id, response'.user_id) :
                     /\ db'.consents[i].status = ConsentStatus.REVOKED
                     /\ has_consent(db'.consents, clock, response'.user_id, db.consents[i].consent_type, TRUE)
                           <=> AnotherActive(db.consents, clock, i)
          ELSE /\ response'.result = [exc |-> "ValueError", message |-> "Consent not found"]
               /\ db' = db]_vars

\* user 1 has revoked their own consent 1, which the audit trail shows, and
\* was then refused the revocation of consent 2, which belongs to user 2 and
\* is still active
C21_Witness ==
    /\ Served_call("revoke_consent")
    /\ response.user_id = 1
    /\ response.consent_id = 2
    /\ response.result.exc = "ValueError"
    /\ Len(db.consents) = 2
    /\ db.consents[1].user_id = 1
    /\ db.consents[1].status = ConsentStatus.REVOKED
    /\ db.consents[2].user_id = 2
    /\ db.consents[2].status = ConsentStatus.ACTIVE
    /\ Len(db.audit_logs) = 1
    /\ db.audit_logs[1].action = AuditAction.UPDATE
    /\ db.audit_logs[1].resource_id = "1"
    /\ db.audit_logs[1].details.previous_status = ConsentStatus.ACTIVE
    /\ db.audit_logs[1].details.new_status = ConsentStatus.REVOKED
    /\ ~has_consent(db.consents, clock, 1, "privacy_policy", TRUE)

\* the positions of the user's active, unexpired consents of a type
ActiveOf(rows, utcnow, user_id, consent_type) ==
    {i \in 1..Len(rows) : /\ rows[i].user_id = user_id
                          /\ rows[i].consent_type = consent_type
                          /\ rows[i].status = ConsentStatus.ACTIVE
                          /\ rows[i].expires_at > utcnow}

\* the record carries the four values of the request
Carries(row, consent_data) ==
    /\ row.status = consent_data.status
    /\ row.expires_at = consent_data.expires_at
    /\ row.version = consent_data.version
    /\ row.metadata = consent_data.metadata

\* the step adds one audit entry, of the action, about the record id
Audited(action, id) ==
    /\ Len(db'.audit_logs) = Len(db.audit_logs) + 1
    /\ SubSeq(db'.audit_logs, 1, Len(db.audit_logs)) = db.audit_logs
    /\ db'.audit_logs[Len(db'.audit_logs)].action = action
    /\ db'.audit_logs[Len(db'.audit_logs)].resource_type = "consent"
    /\ db'.audit_logs[Len(db'.audit_logs)].resource_id = IntToStr(id)

\* C27: create_consent for a user who holds an active, unexpired consent of
\* the type updates that record (status, expires_at, version, metadata) and
\* logs an UPDATE, adding no record; otherwise it adds exactly one record,
\* with the values of the request, and logs a CREATE.  Every other record
\* stays as it was.
C27_CreateOrUpdate ==
    [][(Serves("create_consent") /\ db' # db) =>
          LET held == ActiveOf(db.consents, clock, response'.user_id, response'.consent_data.consent_type)
          IN  IF held # {}
              THEN /\ Len(db'.consents) = Len(db.consents)
                   /\ \E i \in held :
                         /\ Carries(db'.consents[i], response'.consent_data)
                         /\ db'.consents[i].id = db.consents[i].id
                         /\ db'.consents[i].user_id = db.consents[i].user_id
                         /\ db'.consents[i].consent_type = db.consents[i].consent_type
                         /\ Audited(AuditAction.UPDATE, db.consents[i].id)
                         /\ \A j \in 1..Len(db.consents) : j # i => db'.consents[j] = db.consents[j]
              ELSE /\ Len(db'.consents) = Len(db.consents) + 1
                   /\ SubSeq(db'.consents, 1, Len(db.consents)) = db.consents
                   /\ Carries(db'.consents[Len(db'.consents)], response'.consent_data)
                   /\ db'.consents[Len(db'.consents)].user_id = response'.user_id
                   /\ db'.consents[Len(db'.consents)].consent_type = response'.consent_data.consent_type
                   /\ Audited(AuditAction.CREATE, db'.consents[Len(db'.consents)].id)]_vars

\* user 1, whose stored privacy_policy consent was active and running, asked
\* for a new one: the table still has one record, now carrying version 2.0,
\* and the audit trail has one UPDATE and no CREATE
C27_Witness ==
    /\ Served_call("create_consent")
    /\ response.user_id = 1
    /\ response.consent_data.consent_type = "privacy_policy"
    /\ response.consent_data.version = "2.0"
    /\ response.result.exc = NoException
    /\ Len(db.consents) = 1
    /\ db.consents[1].granted_at = 0
    /\ db.consents[1].updated_at = response.at
    /\ Carries(db.consents[1], response.consent_data)
    /\ Len(db.audit_logs) = 1
    /\ db.audit_logs[1].action = AuditAction.UPDATE
    /\ db.audit_logs[1].details.previous_status = ConsentStatus.ACTIVE

(***************************************************************************)
(* policies/data_retention.py: DataRetentionPolicy over the reports and    *)
(* audit_logs tables.  Times are days; a call reads utcnow() as one day.   *)
(* A report row has the columns the policy reads and writes: id,           *)
(* created_at, is_anonymized, device_id, image_path,                       *)
(* is_original_image_deleted; an audit row has id and timestamp.  A fault  *)
(* is the database operation of the call that raises, if any.              *)
(***************************************************************************)
DefaultRetention ==
    [report_retention_days |-> 365,
     anonymize_reports_after_days |-> 30,
     delete_original_images_after_days |-> 30,
     keep_processed_data_days |-> 90,
     audit_log_retention_days |-> 365 * 2]

\* mutant: a row exactly days old counts as old
OlderThan_inclusive(at, utcnow, days) == at <= utcnow - days

\* created_at < datetime.utcnow() - timedelta(days=days)
OlderThan(at, utcnow, days) == at < utcnow - days

NoFault == [at |-> "none", k |-> 0]

\* the commit of anonymize_report for the k-th old report, the commit that
\* marks the k-th old report, the deletion of the audit logs, the last commit
Faults ==
    {NoFault, [at |-> "audit_logs", k |-> 0], [at |-> "commit", k |-> 0]}
    \cup [at : {"anonymize_report", "mark"}, k : {1, 2}]

\* the personal data of a row after anonymize_report
Anonymized(report) == [report EXCEPT !.device_id = <<"anonymized_", IntToStr(report.id)>>]

\* anonymize_report(db, report_id): True and the row rewritten, or False
\* after a rollback (or for an id that is not there)
anonymize_report(reports, report_id, fails) ==
    IF fails \/ ~\E i \in 1..Len(reports) : reports[i].id = report_id
    THEN [ok |-> FALSE, reports |-> reports,
          errors |-> IF fails THEN <<"Error anonymizing report">> ELSE <<>>]
    ELSE [ok |-> TRUE,
          reports |-> [i \in 1..Len(reports) |->
                          IF reports[i].id = report_id THEN Anonymized(reports[i]) ELSE reports[i]],
          errors |-> <<>>]

\* report.is_anonymized = True
Marked(reports, report_id) ==
    [i \in 1..Len(reports) |->
        IF reports[i].id = report_id THEN [reports[i] EXCEPT !.is_anonymized = TRUE] ELSE reports[i]]

\* one pass of the first loop: acc has the committed reports, the result so
\* far, the errors logged, and the exception in flight
AnonymizeStep(acc, done, report_id, marks) ==
    IF ~done.ok THEN [acc EXCEPT !.errors = @ \o done.errors]
    ELSE IF ~marks THEN [acc EXCEPT !.reports = done.reports, !.exc = "SQLAlchemyError"]
    ELSE [acc EXCEPT !.reports = Marked(done.reports, report_id),
                     !.result.anonymized_reports = @ + 1]

RECURSIVE AnonymizeLoop(_, _, _, _)
AnonymizeLoop(acc, old_reports, k, fault) ==
    IF old_reports = <<>> \/ acc.exc # NoException THEN acc
    ELSE AnonymizeLoop(AnonymizeStep(acc,
                                     anonymize_report(acc.reports, Head(old_reports).id,
                                                      fault = [at |-> "anonymize_report", k |-> k]),
                                     Head(old_reports).id,
                                     fault # [at |-> "mark", k |-> k]),
                       Tail(old_reports), k + 1, fault)

\* the rows of the first query: old enough to anonymize, and not anonymized
ToAnonymize(reports, utcnow, retention) ==
    SelectSeq(reports, LAMBDA report : /\ OlderThan(report.created_at, utcnow, retention.anonymize_reports_after_days)
                                       /\ report.is_anonymized = FALSE)

\* the rows of the second query: past the retention period
ToDelete(reports, utcnow, retention) ==
    SelectSeq(reports, LAMBDA report : OlderThan(report.created_at, utcnow, retention.report_retention_days))

\* the report has an image that is not yet marked as deleted
HasOriginalImage(report) ==
    /\ ~Falsy(report.image_path)
    /\ hasattr(report, "is_original_image_deleted")
    /\ ~report.is_original_image_deleted

\* the counts after the second loop
CountDeleted(result, old_reports) ==
    [result EXCEPT !.deleted_reports = @ + Len(old_reports),
                   !.deleted_original_images = @ + Len(SelectSeq(old_reports, HasOriginalImage))]

\* the tables once the pending deletions are committed
Purged(tables, utcnow, retention) ==
    [reports |-> SelectSeq(tables.reports, LAMBDA report : ~OlderThan(report.created_at, utcnow, retention.report_retention_days)),
     audit_logs |-> SelectSeq(tables.audit_logs, LAMBDA entry : ~OlderThan(entry.timestamp, utcnow, retention.audit_log_retention_days))]

\* query(models.AuditLog).filter(timestamp < audit_log_date).delete()
OldLogs(tables, utcnow, retention) ==
    Len(SelectSeq(tables.audit_logs, LAMBDA entry : OlderThan(entry.timestamp, utcnow, retention.audit_log_retention_days)))

\* except Exception: logger.error(...); db.rollback(); return result
RolledBack(tables, result, errors) ==
    [tables |-> tables, result |-> result, errors |-> Append(errors, "Error in data retention cleanup")]

\* the second loop, the deletion of the audit logs and the commit, from the
\* committed tables and the counts of the first loop
DeleteStage(tables, counted, errors, utcnow, retention, fault) ==
    IF fault.at = "audit_logs" THEN RolledBack(tables, counted, errors)
    ELSE IF fault.at = "commit"
    THEN RolledBack(tables, [counted EXCEPT !.deleted_audit_logs = OldLogs(tables, utcnow, retention)], errors)
    ELSE [tables |-> Purged(tables, utcnow, retention),
          result |-> [counted EXCEPT !.deleted_audit_logs = OldLogs(tables, utcnow, retention)],
          errors |-> errors]

AfterAnonymize(tables, acc, utcnow, retention, fault) ==
    IF acc.exc # NoException
    THEN RolledBack([tables EXCEPT !.reports = acc.reports], acc.result, acc.errors)
    ELSE DeleteStage([tables EXCEPT !.reports = acc.reports],
                     CountDeleted(acc.result, ToDelete(acc.reports, utcnow, retention)),
                     acc.errors, utcnow, retention, fault)

delete_old_data(tables, utcnow, retention, fault) ==
    AfterAnonymize(tables,
                   AnonymizeLoop([reports |-> tables.reports,
                                  result |-> [anonymized_reports |-> 0, deleted_reports |-> 0,
                                              deleted_original_images |-> 0, deleted_audit_logs |-> 0],
                                  errors |-> <<>>, exc |-> NoException],
                                 ToAnonymize(tables.reports, utcnow, retention), 1, fault),
                   utcnow, retention, fault)

MaxRows == 2
MaxLogs == 1

\* the reports a table may hold on day 1, by age in days: fresh, at and past
\* the anonymization age, at and past the retention period
ReportShapes ==
    {[age |-> 0, is_anonymized |-> FALSE, image_path |-> "uploads/a.jpg", is_original_image_deleted |-> FALSE],
     [age |-> 30, is_anonymized |-> FALSE, image_path |-> "", is_original_image_deleted |-> FALSE],
     [age |-> 31, is_anonymized |-> FALSE, image_path |-> "uploads/b.jpg", is_original_image_deleted |-> FALSE],
     [age |-> 365, is_anonymized |-> TRUE, image_path |-> "uploads/d.jpg", is_original_image_deleted |-> FALSE],
     [age |-> 366, is_anonymized |-> FALSE, image_path |-> "uploads/e.jpg", is_original_image_deleted |-> FALSE],
     [age |-> 366, is_anonymized |-> TRUE, image_path |-> "uploads/f.jpg", is_original_image_deleted |-> TRUE]}

StoredReport(id, shape) ==
    [id |-> id, created_at |-> 1 - shape.age, is_anonymized |-> shape.is_anonymized,
     device_id |-> IF shape.is_anonymized THEN <<"anonymized_", IntToStr(id)>> ELSE <<"device-", IntToStr(id)>>,
     image_path |-> shape.image_path, is_original_image_deleted |-> shape.is_original_image_deleted]

\* the audit entries a table may hold on day 1, by age in days
LogAges == {0, 730, 731}

RetentionTables ==
    UNION {{[reports |-> [i \in 1..n |-> StoredReport(i, shapes[i])],
             audit_logs |-> [i \in 1..m |-> [id |-> i, timestamp |-> 1 - ages[i]]]] :
                shapes \in [1..n -> ReportShapes], ages \in [1..m -> LogAges]} :
           n \in 0..MaxRows, m \in 0..MaxLogs}

\* the scheduled cleanup runs, and the fault, if any, strikes
DeleteOldData(fault) ==
    /\ db' = delete_old_data(db, clock, DefaultRetention, fault).tables
    /\ response' = [call |-> "delete_old_data", at |-> clock, fault |-> fault,
                    result |-> delete_old_data(db, clock, DefaultRetention, fault).result,
                    errors |-> delete_old_data(db, clock, DefaultRetention, fault).errors]
    /\ UNCHANGED <<config, log, threads, clock, checkerVars>>

InitRetention ==
    /\ config = "default"
    /\ pc = "idle"
    /\ billboard = NoCall
    /\ report_data = NoCall
    /\ now = 0
    /\ outcome = NoCall
    /\ log = <<>>
    /\ threads = NoThreads
    /\ db \in RetentionTables
    /\ response = NoCall
    /\ clock = 1

NextRetention ==
    \/ \E fault \in Faults : DeleteOldData(fault)
    \/ Tick

SpecRetention == InitRetention /\ [][NextRetention]_vars

\* the report of the table before the step is not in the table after it
Gone(report) == \A j \in 1..Len(db'.reports) : db'.reports[j].id # report.id

\* the report of a table that has the id
Kept(reports, id) == reports[CHOOSE j \in 1..Len(reports) : reports[j].id = id]

\* what the step did to the database: reports that were not anonymized and
\* now are (or were, before they were deleted), reports deleted, deleted
\* reports whose image was still to delete, audit entries deleted
ActuallyDone ==
    [anonymized_reports |->
        Cardinality({i \in 1..Len(db.reports) :
                        /\ ~db.reports[i].is_anonymized
                        /\ (Gone(db.reports[i]) \/ Kept(db'.reports, db.reports[i].id).is_anonymized)}),
     deleted_reports |-> Cardinality({i \in 1..Len(db.reports) : Gone(db.reports[i])}),
     deleted_original_images |->
        Cardinality({i \in 1..Len(db.reports) : HasOriginalImage(db.reports[i]) /\ Gone(db.reports[i])}),
     deleted_audit_logs |-> Len(db.audit_logs) - Len(db'.audit_logs)]

POINTS ==
    [report_submitted |-> 10, report_verified |-> 20, violation_found |-> 30,
     streak_bonus |-> 5, weekly_challenge |-> 50, referral |-> 25]

\* the created_at of the user's report_submitted records
ReportTimes(user_points, user_id) ==
    {user_points[i].created_at : i \in {j \in 1..Len(user_points) :
        user_points[j].user_id = user_id /\ user_points[j].action = "report_submitted"}}

\* order_by(created_at.desc()).first().created_at
Latest(times) == CHOOSE t \in times : \A u \in times : u <= t

\* the users table with one column of the user's row set
SetUser(users, user_id, column, value) ==
    [i \in 1..Len(users) |-> IF users[i].id = user_id THEN [users[i] EXCEPT ![column] = value] ELSE users[i]]

\* db.query(models.User).filter(id == user_id).first(), as <<row>> or <<>>
UserRow(users, user_id) == First(users, LAMBDA user : user.id = user_id)

\* user.streak_days = 1 (if there is such a user); return 1
ResetStreak(tables, user_id) ==
    [value |-> 1, tables |-> [tables EXCEPT !.users = SetUser(@, user_id, "streak_days", 1)]]

\* user.streak_days = (user.streak_days or 0) + 1; return user.streak_days;
\* without a user the code falls through to the reset
ContinueStreak(tables, user, user_id) ==
    IF user = <<>> THEN ResetStreak(tables, user_id)
    ELSE [value |-> user[1].streak_days + 1,
          tables |-> [tables EXCEPT !.users = SetUser(@, user_id, "streak_days", user[1].streak_days + 1)]]

\* the branches on time_since_last, in hours
SinceLast(tables, time_since_last, user_id) ==
    IF time_since_last < 36 THEN [value |-> 0, tables |-> tables]
    ELSE IF time_since_last < 48 THEN ContinueStreak(tables, UserRow(tables.users, user_id), user_id)
    ELSE ResetStreak(tables, user_id)

_check_streak(tables, utcnow, user_id) ==
    IF ReportTimes(tables.user_points, user_id) = {} THEN [value |-> 1, tables |-> tables]
    ELSE SinceLast(tables, utcnow - Latest(ReportTimes(tables.user_points, user_id)), user_id)

\* points += streak * POINTS['streak_bonus'], only after the first day
WithBonus(points, streak) == IF streak > 1 THEN points + streak * POINTS.streak_bonus ELSE points

\* the point record is added and the user's total, if there is such a user,
\* grows by the points
Awarded(tables, utcnow, user_id, action, points) ==
    [value |-> points,
     tables |-> [users |-> [i \in 1..Len(tables.users) |->
                              IF tables.users[i].id = user_id
                              THEN [tables.users[i] EXCEPT !.total_points = @ + points]
                              ELSE tables.users[i]],
                 user_points |-> Append(tables.user_points,
                                        [user_id |-> user_id, points |-> points, action |-> action,
                                         created_at |-> utcnow])]]

AwardStreak(utcnow, user_id, action, streak) ==
    Awarded(streak.tables, utcnow, user_id, action, WithBonus(POINTS[action], streak.value))

award_points(tables, utcnow, user_id, action) ==
    IF action \notin DOMAIN POINTS THEN [value |-> 0, tables |-> tables]
    ELSE IF action = "report_submitted"
    THEN AwardStreak(utcnow, user_id, action, _check_streak(tables, utcnow, user_id))
    ELSE Awarded(tables, utcnow, user_id, action, POINTS[action])

MaxAwards == 2
MaxHours == 96

\* the hours that pass between two requests
Gaps == {24, 36, 47, 48}

\* the tables the session may find at hour 0: user 1, new or two days into a
\* streak, with or without a report submitted just now; user 2 has no row
IncentiveTables ==
    {[users |-> <<[id |-> 1, streak_days |-> streak_days, total_points |-> POINTS.report_submitted * Len(user_points)]>>,
      user_points |-> user_points] :
        streak_days \in {0, 2},
        user_points \in {<<>>, <<[user_id |-> 1, points |-> POINTS.report_submitted,
                                  action |-> "report_submitted", created_at |-> 0]>>}}

\* a request handler awards points for an action
AwardPoints(user_id, action) ==
    /\ action \notin DOMAIN POINTS \/ Len(db.user_points) < MaxAwards
    /\ db' = award_points(db, clock, user_id, action).tables
    /\ response' = [call |-> "award_points", user_id |-> user_id, action |-> action, at |-> clock,
                    result |-> award_points(db, clock, user_id, action).value]
    /\ UNCHANGED <<config, log, threads, clock, checkerVars>>

\* hours pass
Wait(hours) ==
    /\ clock + hours <= MaxHours
    /\ clock' = clock + hours
    /\ UNCHANGED <<config, log, threads, db, response, checkerVars>>

InitIncentive ==
    /\ config = "default"
    /\ pc = "idle"
    /\ billboard = NoCall
    /\ report_data = NoCall
    /\ now = 0
    /\ outcome = NoCall
    /\ log = <<>>
    /\ threads = NoThreads
    /\ db \in IncentiveTables
    /\ response = NoCall
    /\ clock = 0

NextIncentive ==
    \/ \E user_id \in {1, 2}, action \in {"report_submitted", "report_verified", "share"} : AwardPoints(user_id, action)
    \/ \E hours \in Gaps : Wait(hours)

SpecIncentive == InitIncentive /\ [][NextIncentive]_vars

\* the step serves award_points(user_id, 'report_submitted') to a user who
\* has a row and an earlier report_submitted record
ReportAwarded(user_id) ==
    /\ Serves("award_points")
    /\ response'.user_id = user_id
    /\ response'.action = "report_submitted"
    /\ UserRow(db.users, user_id) # <<>>
    /\ ReportTimes(db.user_points, user_id) # {}

\* the hours since the user's last report_submitted record
Gap(user_id) == clock - Latest(ReportTimes(db.user_points, user_id))

\* C26: a report_submitted whose predecessor was submitted the day before (a
\* day to 36 hours ago, and in any case less than 48 hours ago) continues the
\* streak: streak_days grows by one and, once it exceeds one day, the award
\* is the 10 base points plus 5 per streak day; after a gap of more than 48
\* hours streak_days is 1 and the award is the 10 base points.
C26_StreakContinues ==
    [][\A user_id \in {1, 2} :
          ReportAwarded(user_id) =>
             /\ (Gap(user_id) >= 24 /\ Gap(user_id) < 48) =>
                   /\ UserRow(db'.users, user_id)[1].streak_days = UserRow(db.users, user_id)[1].streak_days + 1
                   /\ response'.result =
                         IF UserRow(db'.users, user_id)[1].streak_days > 1
                         THEN POINTS.report_submitted + POINTS.streak_bonus * UserRow(db'.users, user_id)[1].streak_days
                         ELSE POINTS.report_submitted
             /\ Gap(user_id) > 48 =>
                   /\ UserRow(db'.users, user_id)[1].streak_days = 1
                   /\ response'.result = POINTS.report_submitted]_vars

====
